---------------------------- MODULE Spec2Model ----------------------------
(***************************************************************************)
(* A model of aviary/subsystems/propulsion/engine_deck.py: the construction *)
(* of an EngineDeck (EngineDeck._setup) as a state machine whose steps are  *)
(* the stages _read_data, _check_data, _pack_data, _set_reference_thrust,   *)
(* _normalize_throttle and _generate_flight_idle.                           *)
(*                                                                          *)
(* Numbers.  The code computes with numpy float64.  The model computes with *)
(* extended rationals <<n, d>>: d > 0 is the rational n/d in lowest terms,  *)
(* <<1,0>> and <<-1,0>> are +inf and -inf, <<0,0>> is NaN (numpy divides by *)
(* zero without raising).  Rounding error of float64 is not modelled;       *)
(* math.isclose's relative tolerance of 1e-9 is below the resolution of the *)
(* values the model draws and is modelled as 0.                             *)
(***************************************************************************)
EXTENDS Integers, Sequences, FiniteSets, TLC

(***************************************************************************)
(* Extended rational arithmetic (numpy float64 semantics for + - * / and    *)
(* the comparisons, NaN comparing false with everything).                   *)
(***************************************************************************)
Abs(x) == IF x < 0 THEN -x ELSE x

Sign(x) == IF x < 0 THEN -1 ELSE IF x > 0 THEN 1 ELSE 0

RECURSIVE GCD(_, _)
GCD(a, b) == IF b = 0 THEN a ELSE GCD(b, a % b)

\* <<n, d>> in lowest terms with d >= 0; d = 0 keeps only the sign of n
Norm(n, d) ==
    IF d = 0 THEN <<Sign(n), 0>>
    ELSE LET s == IF d < 0 THEN -1 ELSE 1
             g == GCD(Abs(n), Abs(d))
         IN  <<(s * n) \div g, (s * d) \div g>>

R(n) == <<n, 1>>

Q(n, d) == Norm(n, d)

NaN == <<0, 0>>

IsNaN(a) == a = NaN

IsInf(a) == a[2] = 0 /\ a[1] # 0

IsFinite(a) == a[2] > 0

RNeg(a) == <<-a[1], a[2]>>

RAdd(a, b) ==
    IF IsInf(a) /\ IsInf(b) THEN (IF a = b THEN a ELSE NaN)
    ELSE Norm(a[1] * b[2] + b[1] * a[2], a[2] * b[2])

RSub(a, b) == RAdd(a, RNeg(b))

RMul(a, b) == Norm(a[1] * b[1], a[2] * b[2])

RDiv(a, b) ==
    IF IsNaN(a) \/ IsNaN(b) THEN NaN
    ELSE IF b[1] < 0 THEN Norm(-(a[1] * b[2]), a[2] * (-b[1]))
    ELSE Norm(a[1] * b[2], a[2] * b[1])

RLt(a, b) ==
    IF IsNaN(a) \/ IsNaN(b) THEN FALSE
    ELSE IF IsInf(a) /\ IsInf(b) THEN a[1] < b[1]
    ELSE a[1] * b[2] < b[1] * a[2]

RLe(a, b) ==
    IF IsNaN(a) \/ IsNaN(b) THEN FALSE
    ELSE IF IsInf(a) /\ IsInf(b) THEN a[1] <= b[1]
    ELSE a[1] * b[2] <= b[1] * a[2]

RGt(a, b) == RLt(b, a)

RGe(a, b) == RLe(b, a)

REq(a, b) == ~IsNaN(a) /\ ~IsNaN(b) /\ a = b

RAbs(a) == <<Abs(a[1]), a[2]>>

\* math.isclose(a, b, abs_tol=tol) for finite b or b = inf (rel_tol taken as 0)
IsClose(a, b, tol) ==
    IF IsNaN(a) \/ IsNaN(b) THEN FALSE
    ELSE IF a = b THEN TRUE
    ELSE IF IsInf(a) \/ IsInf(b) THEN FALSE
    ELSE RLe(RAbs(RSub(a, b)), tol)


(***************************************************************************)
(* Sequence helpers (numpy vector operations on 1-d arrays).                *)
(***************************************************************************)
Zeros(n) == [i \in 1..n |-> R(0)]

Repeat(v, n) == [i \in 1..n |-> v]

Range(s) == {s[i] : i \in DOMAIN s}

\* the subsequence of s at the (increasing) positions of idx, a sequence of indices
Take(s, idx) == [i \in 1..Len(idx) |-> s[idx[i]]]

RECURSIVE WhereFrom(_, _, _)
WhereFrom(P(_), s, i) ==
    IF i > Len(s) THEN <<>>
    ELSE IF P(s[i]) THEN <<i>> \o WhereFrom(P, s, i + 1)
    ELSE WhereFrom(P, s, i + 1)

\* np.where(P(s))[0]: the positions of s whose value satisfies P, increasing
Where(P(_), s) == WhereFrom(P, s, 1)

\* numpy broadcasting of two 1-d arrays: equal lengths, or one of length 1
Broadcastable(a, b) == Len(a) = Len(b) \/ Len(a) = 1 \/ Len(b) = 1

BroadcastLen(a, b) ==
    IF Len(a) = Len(b) THEN Len(a) ELSE IF Len(a) = 1 THEN Len(b) ELSE Len(a)

At(a, i) == IF Len(a) = 1 THEN a[1] ELSE a[i]

VAdd(a, b) == [i \in 1..BroadcastLen(a, b) |-> RAdd(At(a, i), At(b, i))]

VSub(a, b) == [i \in 1..BroadcastLen(a, b) |-> RSub(At(a, i), At(b, i))]

VAbs(a) == [i \in 1..Len(a) |-> RAbs(a[i])]

\* Python's builtin max / min over a sequence: the first element is kept unless
\* a later one compares greater / smaller (NaN never does)
RECURSIVE PyMaxFrom(_, _, _)
PyMaxFrom(s, i, cur) ==
    IF i > Len(s) THEN cur
    ELSE PyMaxFrom(s, i + 1, IF RGt(s[i], cur) THEN s[i] ELSE cur)

PyMax(s) == PyMaxFrom(s, 2, s[1])

RECURSIVE PyMinFrom(_, _, _)
PyMinFrom(s, i, cur) ==
    IF i > Len(s) THEN cur
    ELSE PyMinFrom(s, i + 1, IF RLt(s[i], cur) THEN s[i] ELSE cur)

PyMin(s) == PyMinFrom(s, 2, s[1])

(***************************************************************************)
(* The engine variables (EngineModelVariables) the model carries.           *)
(* ELECTRIC_POWER, NOX_RATE and TEMPERATURE are handled by the code exactly *)
(* as FUEL_FLOW is and are left out.                                        *)
(***************************************************************************)
MACH == "MACH"

ALTITUDE == "ALTITUDE"

THROTTLE == "THROTTLE"

HYBRID_THROTTLE == "HYBRID_THROTTLE"

THRUST == "THRUST"

TAILPIPE_THRUST == "TAILPIPE_THRUST"

GROSS_THRUST == "GROSS_THRUST"

SHAFT_POWER == "SHAFT_POWER"

SHAFT_POWER_CORRECTED == "SHAFT_POWER_CORRECTED"

RAM_DRAG == "RAM_DRAG"

FUEL_FLOW == "FUEL_FLOW"

EngineModelVariables ==
    {MACH, ALTITUDE, THROTTLE, HYBRID_THROTTLE, THRUST, TAILPIPE_THRUST,
     GROSS_THRUST, SHAFT_POWER, SHAFT_POWER_CORRECTED, RAM_DRAG, FUEL_FLOW}

\* the keys of self.data: every variable but gross thrust, ram drag, tailpipe thrust
DataKeys == EngineModelVariables \ {GROSS_THRUST, RAM_DRAG, TAILPIPE_THRUST}

\* the order in which Python iterates over self.data (the enum's order)
KeyOrder ==
    <<MACH, ALTITUDE, THROTTLE, HYBRID_THROTTLE, THRUST, FUEL_FLOW,
      SHAFT_POWER, SHAFT_POWER_CORRECTED>>

default_required_variables == {MACH, ALTITUDE, THROTTLE, THRUST}

\* the variables of the enum that have aliases but no column in this model
ELECTRIC_POWER == "ELECTRIC_POWER"

NOX_RATE == "NOX_RATE"

TEMPERATURE == "TEMPERATURE_ENGINE_T4"

\* the keys of the aliases dict, in the order Python iterates over them
alias_keys ==
    <<MACH, ALTITUDE, THROTTLE, HYBRID_THROTTLE, THRUST, GROSS_THRUST, RAM_DRAG,
      FUEL_FLOW, ELECTRIC_POWER, NOX_RATE, TEMPERATURE, SHAFT_POWER,
      SHAFT_POWER_CORRECTED, TAILPIPE_THRUST>>

\* aliases[key]: a list of strings for every key but ELECTRIC_POWER, whose
\* value is the bare string 'electric_power'
aliases(key) ==
    CASE key = MACH -> <<"m", "mn", "mach", "mach_number">>
      [] key = ALTITUDE -> <<"altitude", "alt", "h">>
      [] key = THROTTLE -> <<"throttle", "power_code", "pc">>
      [] key = HYBRID_THROTTLE ->
             <<"hybrid_throttle", "hpc", "hybrid_power_code", "electric_throttle">>
      [] key = THRUST -> <<"thrust", "net_thrust">>
      [] key = GROSS_THRUST -> <<"gross_thrust">>
      [] key = RAM_DRAG -> <<"ram_drag">>
      [] key = FUEL_FLOW -> <<"fuel", "fuel_flow", "fuel_flow_rate">>
      [] key = ELECTRIC_POWER -> "electric_power"
      [] key = NOX_RATE -> <<"nox", "nox_rate">>
      [] key = TEMPERATURE -> <<"t4", "temp", "temperature">>
      [] key = SHAFT_POWER -> <<"shaft_power", "shp">>
      [] key = SHAFT_POWER_CORRECTED ->
             <<"shaft_power_corrected", "shpcor", "corrected_horsepower">>
      [] key = TAILPIPE_THRUST -> <<"tailpipe_thrust">>

\* Python's `var in aliases[key]` for a string var: membership in a list,
\* but the substring test when aliases[key] is itself a string
var_in_aliases(var, key) ==
    IF key = ELECTRIC_POWER
    THEN \E i \in 1..(Len(aliases(key)) + 1) :
           \E j \in (i - 1)..Len(aliases(key)) :
              SubSeq(aliases(key), i, j) = var
    ELSE \E i \in 1..Len(aliases(key)) : aliases(key)[i] = var

\* the "reverse" lookup of _read_data: the first key whose aliases hold var,
\* as a sequence of length 0 or 1
RECURSIVE alias_from(_, _)
alias_from(var, i) ==
    IF i > Len(alias_keys) THEN <<>>
    ELSE IF var_in_aliases(var, alias_keys[i]) THEN <<alias_keys[i]>>
    ELSE alias_from(var, i + 1)

\* alias_dict, then the renaming of the table's columns: the columns of an
\* in-memory table (a sequence of header / values pairs) under the keys their
\* headers resolve to, a later column replacing an earlier one of the same
\* key; a column whose header resolves to nothing joins no registry
run_through_aliases(table) ==
    LET named == {i \in DOMAIN table : alias_from(table[i].header, 1) # <<>>}
        key_of(i) == alias_from(table[i].header, 1)[1]
    IN  [k \in {key_of(i) : i \in named} |->
            table[CHOOSE i \in named :
                      /\ key_of(i) = k
                      /\ \A j \in named : key_of(j) = k => j <= i].values]

\* raw_data.delete(name); raw_data.set_val(alias_dict[name], val, units) for
\* the columns from position i on: a column whose header is in alias_dict
\* leaves the table and its values are set under the key, which is a new
\* last column unless the table has the key by then
RECURSIVE rename_from(_, _, _)
rename_from(table, i, out) ==
    IF i > Len(table) THEN out
    ELSE IF alias_from(table[i].header, 1) = <<>>
    THEN rename_from(table, i + 1, out)
    ELSE rename_from(table, i + 1,
             IF \E p \in DOMAIN out : out[p].key = alias_from(table[i].header, 1)[1]
             THEN [p \in DOMAIN out |->
                      IF out[p].key = alias_from(table[i].header, 1)[1]
                      THEN [out[p] EXCEPT !.values = table[i].values]
                      ELSE out[p]]
             ELSE Append(out, [key |-> alias_from(table[i].header, 1)[1],
                               values |-> table[i].values]))

\* the NamedValues object handed to _read_data after its renaming loop: the
\* columns whose headers resolved to nothing as they were, then the columns
\* set under the keys of the enum
rename_columns(table) ==
    SelectSeq(table, LAMBDA column : alias_from(column.header, 1) = <<>>)
        \o rename_from(table, 1, <<>>)

\* self.mach_tol = 0.01, self.alt_tol = 10.0 ft, self.thrust_tol = 1 lbf
mach_tol == Q(1, 100)

alt_tol == R(10)

thrust_tol == R(1)

\* the errors construction can end with; the first six carry the spec's names
\* for the exceptions the code raises on purpose, the rest are Python's own
DataConsistencyError == "DataConsistencyError"

MissingRequiredVariableError == "MissingRequiredVariableError"

InsufficientAltitudeError == "InsufficientAltitudeError"

NoSeaLevelStaticPointError == "NoSeaLevelStaticPointError"

ScalingConflictError == "ScalingConflictError"

NoValidDataError == "NoValidDataError"

IndexError == "IndexError"

ValueError == "ValueError"

NameError == "NameError"

ZeroDivisionError == "ZeroDivisionError"

NoError == "none"

(***************************************************************************)
(* EngineDeck._check_data                                                   *)
(***************************************************************************)
\* res = abs(net_thrust_calc - self._original_data[THRUST])
ThrustResidual(orig) ==
    VAbs(VSub(VSub(orig[GROSS_THRUST], orig[RAM_DRAG]), orig[THRUST]))

\* np.any(self.thrust_tol > res): the condition under which the code raises
ThrustCheckRaises(res) == \E i \in DOMAIN res : RGt(thrust_tol, res[i])

\* the set the code gathers under the name missing_variables
missing_variables(ev, req) == {var \in ev : var \in req}

\* the code's condition for raising the missing-required-variable error
MissingCheckRaises(ev, req) ==
    ~(req \subseteq ev) /\ missing_variables(ev, req) = {}

\* every position kept, whatever the thrust
keep_every_idx(thrust) == [i \in DOMAIN thrust |-> i]

\* keep_idx = np.where(model[THRUST] >= 0)
keep_idx(thrust) == Where(LAMBDA x : RGe(x, R(0)), thrust)

\* the value of self.model_length that _check_data leaves
CheckedLength(dat) == Len(dat[ALTITUDE])

\* The whole of _check_data on (self._original_data, self.data,
\* self.engine_variables): the error raised, if any, and the fields as they are
\* when the method returns or raises.  The local operators are the method's
\* successive blocks, the last one first.
check_data(orig, dat, ev, req, ignore_neg) ==
    LET both == RAM_DRAG \in ev /\ GROSS_THRUST \in ev
        ev1  == IF both THEN ev \cup {THRUST} ELSE ev
        tp   == TAILPIPE_THRUST \in ev1
        ev2  == ev1 \ {RAM_DRAG, GROSS_THRUST, TAILPIPE_THRUST}
        Outcome(e, d, v, ml) ==
            [err |-> e, data |-> d, engine_variables |-> v, model_length |-> ml]
        \* if IGNORE_NEGATIVE_THRUST: data[key] = data[key][keep_idx]
        DropNegative(d3, ml, keep) ==
            IF ~ignore_neg THEN Outcome(NoError, d3, ev2, ml)
            ELSE IF \E k \in DOMAIN d3 : \E i \in DOMAIN keep : keep[i] > Len(d3[k])
            THEN Outcome(IndexError, d3, ev2, ml)
            ELSE Outcome(NoError, [k \in DOMAIN d3 |-> Take(d3[k], keep)], ev2, ml)
        \* fill the variables that were not provided with zeros
        FillZeros(d2, ml) ==
            [k \in DOMAIN d2 |-> IF Len(d2[k]) = 0 THEN Zeros(ml) ELSE d2[k]]
        Filled(d3, ml) == DropNegative(d3, ml, keep_idx(d3[THRUST]))
        \* model_length, then the required variables
        Required(d2) ==
            IF MissingCheckRaises(ev2, req)
            THEN Outcome(MissingRequiredVariableError, d2, ev2, CheckedLength(d2))
            ELSE Filled(FillZeros(d2, CheckedLength(d2)), CheckedLength(d2))
        \* tailpipe thrust added to (or taken as) the net thrust
        Tailpipe(d1) ==
            IF ~tp THEN Required(d1)
            ELSE IF THRUST \notin ev1
            THEN Required([d1 EXCEPT ![THRUST] = orig[TAILPIPE_THRUST]])
            ELSE IF ~Broadcastable(orig[THRUST], orig[TAILPIPE_THRUST])
            THEN Outcome(ValueError, d1, ev1, 0)
            ELSE Required([d1 EXCEPT ![THRUST] =
                               VAdd(orig[THRUST], orig[TAILPIPE_THRUST])])
    IN  IF both /\ THRUST \in ev /\ ThrustCheckRaises(ThrustResidual(orig))
        THEN Outcome(DataConsistencyError, dat, ev, 0)
        ELSE IF both /\ THRUST \notin ev
        THEN Tailpipe([dat EXCEPT ![THRUST] =
                           VSub(orig[GROSS_THRUST], orig[RAM_DRAG])])
        ELSE Tailpipe(dat)

(***************************************************************************)
(* EngineDeck._sort_data                                                    *)
(***************************************************************************)
\* numpy's sort order of two values: NaN after every number
SortLt(a, b) == (~IsNaN(a) /\ IsNaN(b)) \/ RLt(a, b)

\* a key order with the altitude first and the Mach number second
RowLessAltitudeFirst(dat, i, j) ==
    \/ SortLt(dat[ALTITUDE][i], dat[ALTITUDE][j])
    \/ /\ dat[ALTITUDE][i] = dat[ALTITUDE][j]
       /\ \/ SortLt(dat[MACH][i], dat[MACH][j])
          \/ /\ dat[MACH][i] = dat[MACH][j]
             /\ \/ SortLt(dat[THROTTLE][i], dat[THROTTLE][j])
                \/ /\ dat[THROTTLE][i] = dat[THROTTLE][j]
                   /\ SortLt(dat[HYBRID_THROTTLE][i], dat[HYBRID_THROTTLE][j])

\* row i of the data precedes row j in np.lexsort's key order
\* (MACH, then ALTITUDE, then THROTTLE, then HYBRID_THROTTLE)
RowLess(dat, i, j) ==
    \/ SortLt(dat[MACH][i], dat[MACH][j])
    \/ /\ dat[MACH][i] = dat[MACH][j]
       /\ \/ SortLt(dat[ALTITUDE][i], dat[ALTITUDE][j])
          \/ /\ dat[ALTITUDE][i] = dat[ALTITUDE][j]
             /\ \/ SortLt(dat[THROTTLE][i], dat[THROTTLE][j])
                \/ /\ dat[THROTTLE][i] = dat[THROTTLE][j]
                   /\ SortLt(dat[HYBRID_THROTTLE][i], dat[HYBRID_THROTTLE][j])

\* insert index i into the sorted index list idx after every index not greater
RECURSIVE InsertIdx(_, _, _)
InsertIdx(dat, idx, i) ==
    IF idx = <<>> THEN <<i>>
    ELSE IF RowLess(dat, i, Head(idx)) THEN <<i>> \o idx
    ELSE <<Head(idx)>> \o InsertIdx(dat, Tail(idx), i)

RECURSIVE LexSortFrom(_, _, _, _)
LexSortFrom(dat, n, i, idx) ==
    IF i > n THEN idx ELSE LexSortFrom(dat, n, i + 1, InsertIdx(dat, idx, i))

\* np.lexsort: the stable permutation that sorts the rows
LexSort(dat) == LexSortFrom(dat, Len(dat[MACH]), 1, <<>>)

\* all columns have one length (np.array(...).transpose() needs it)
SameLengths(dat) == \A k \in DOMAIN dat : Len(dat[k]) = Len(dat[MACH])

sort_data(dat) ==
    LET perm == LexSort(dat)
    IN  [k \in DOMAIN dat |-> Take(dat[k], perm)]

(***************************************************************************)
(* extend_array and EngineDeck._count_data                                  *)
(* data_indices is a list of rows (one per Mach bin), all of one length.    *)
(***************************************************************************)
Max(a, b) == IF a > b THEN a ELSE b

NumCols(arr) == IF Len(arr) = 0 THEN 0 ELSE Len(arr[1])

\* extend_array(inp_array, [rows, cols]) on a 2-d array: grown, never shrunk,
\* new entries 0
extend_array(arr, rows, cols) ==
    LET r == Max(Len(arr), rows)
        c == Max(NumCols(arr), cols)
    IN  [m \in 1..r |-> [a \in 1..c |->
            IF m <= Len(arr) /\ a <= NumCols(arr) THEN arr[m][a] ELSE 0]]

\* data_indices[m - 1, a - 1] = v
SetEntry(arr, m, a, v) == [arr EXCEPT ![m][a] = v]

PInf == <<1, 0>>

\* the locals of _count_data before its loop; np.array([[]]) has shape (1, 0)
CountInit ==
    [mach_count |-> 0, alt_count |-> 1, max_alt_count |-> 0,
     data_count |-> 1, max_data_count |-> 0, data_indices |-> << <<>> >>,
     curr_mach |-> PInf, curr_alt |-> PInf, err |-> NoError]

\* same Mach and same altitude as the running values: one more sample in the bin
CountSameBin(st) ==
    [st EXCEPT !.data_indices =
                   SetEntry(@, st.mach_count, st.alt_count, st.data_count),
               !.data_count = @ + 1]

\* same Mach, new altitude
CountNewAlt(st, alt) ==
    LET ac == st.alt_count + 1
    IN  [st EXCEPT !.curr_alt = alt,
                   !.alt_count = ac,
                   !.max_data_count = Max(@, st.data_count),
                   !.data_count = 1,
                   !.data_indices =
                       SetEntry(extend_array(@, st.mach_count, ac),
                                st.mach_count, ac, 1)]

\* a count that lets a Mach number with a single altitude pass
AnyAltitudeCount(st) == FALSE

\* the check made when a new Mach number starts
TooFewAltitudes(st) == st.alt_count < 2 /\ st.mach_count > 0

\* new Mach number
CountNewMach(st, mach_num, alt) ==
    IF TooFewAltitudes(st)
    THEN [st EXCEPT !.err = InsufficientAltitudeError]
    ELSE LET mc == st.mach_count + 1
         IN  [st EXCEPT !.curr_mach = mach_num,
                        !.mach_count = mc,
                        !.max_alt_count = Max(@, st.alt_count),
                        !.curr_alt = alt,
                        !.alt_count = 1,
                        !.max_data_count = Max(@, st.data_count),
                        !.data_count = 1,
                        !.data_indices =
                            SetEntry(extend_array(@, mc, 1), mc, 1, 1)]

\* one iteration of the loop of _count_data
CountStep(st, mach_num, alt) ==
    IF IsClose(mach_num, st.curr_mach, mach_tol)
    THEN IF IsClose(alt, st.curr_alt, alt_tol)
         THEN CountSameBin(st)
         ELSE CountNewAlt(st, alt)
    ELSE CountNewMach(st, mach_num, alt)

RECURSIVE CountFrom(_, _, _, _)
CountFrom(dat, ml, idx, st) ==
    IF idx > ml \/ st.err # NoError THEN st
    ELSE IF idx > Len(dat[MACH]) \/ idx > Len(dat[ALTITUDE])
    THEN [st EXCEPT !.err = IndexError]
    ELSE CountFrom(dat, ml, idx + 1,
                   CountStep(st, dat[MACH][idx], dat[ALTITUDE][idx]))

\* _count_data: for idx in range(self.model_length)
count_data(dat, ml) == CountFrom(dat, ml, 1, CountInit)

(***************************************************************************)
(* EngineDeck._pack_data                                                    *)
(***************************************************************************)
\* the (M, A) pairs in the order of the loops of _pack_data
RECURSIVE CellsFrom(_, _, _, _)
CellsFrom(mmax, amax, M, A) ==
    IF M > mmax \/ amax = 0 THEN <<>>
    ELSE IF A > amax THEN CellsFrom(mmax, amax, M + 1, 1)
    ELSE << <<M, A>> >> \o CellsFrom(mmax, amax, M, A + 1)

Cells(mmax, amax) == CellsFrom(mmax, amax, 1, 1)

\* the number of slots _pack_data fills for a bin whose entry is n:
\* for D in range(data_indices[M, A] + 1)
SlotsOf(n) == IF n = 0 THEN 0 ELSE n + 1

\* the value of idx when the loops reach the i-th cell
RECURSIVE StartIdx(_, _, _)
StartIdx(di, cells, i) ==
    IF i = 1 THEN 0
    ELSE StartIdx(di, cells, i - 1)
         + SlotsOf(di[cells[i - 1][1]][cells[i - 1][2]])

\* the assignments packed_data[key][M, A, D] = unpacked_data[idx] that the
\* loops make (D and idx counted from 0, as in the code) for columns of length
\* n; an assignment is made only if idx < len(unpacked_data)
Placements(di, mmax, amax, n) ==
    LET cells == Cells(mmax, amax)
    IN  UNION {
          {[M |-> cells[i][1], A |-> cells[i][2], D |-> D,
            idx |-> StartIdx(di, cells, i) + D] :
              D \in {d \in 0..di[cells[i][1]][cells[i][2]] :
                       StartIdx(di, cells, i) + d < n}} :
          i \in {j \in DOMAIN cells : di[cells[j][1]][cells[j][2]] # 0}}

\* an assignment beyond the last slot of the packed arrays raises IndexError
PackOverflows(pl, dmax) == \E p \in pl : p.D >= dmax

\* packed_data[key] after the loops: np.zeros with the assignments made
PackedOf(col, pl, mmax, amax, dmax) ==
    [M \in 1..mmax |-> [A \in 1..amax |-> [d \in 1..dmax |->
        IF \E p \in pl : p.M = M /\ p.A = A /\ p.D = d - 1
        THEN col[(CHOOSE p \in pl : p.M = M /\ p.A = A /\ p.D = d - 1).idx + 1]
        ELSE R(0)]]]

EmptyPacked == [k \in DataKeys |-> <<>>]

\* The whole of _pack_data (with _sort_data and _count_data) on self.data and
\* self.model_length.
pack_data(dat, ml) ==
    LET Outcome(e, d, mmax, amax, dmax, di, pd) ==
            [err |-> e, data |-> d, mach_max_count |-> mmax,
             alt_max_count |-> amax, data_max_count |-> dmax,
             data_indices |-> di, packed_data |-> pd]
        Failed(e, d) == Outcome(e, d, 0, 0, 0, << <<>> >>, EmptyPacked)
        \* the loops over the packed arrays
        Fill(sorted, st, pl) ==
            IF PackOverflows(pl, st.max_data_count)
            THEN Outcome(IndexError, sorted, st.mach_count, st.max_alt_count,
                         st.max_data_count, st.data_indices, EmptyPacked)
            ELSE Outcome(NoError, sorted, st.mach_count, st.max_alt_count,
                         st.max_data_count, st.data_indices,
                         [k \in DOMAIN sorted |->
                             PackedOf(sorted[k], pl, st.mach_count,
                                      st.max_alt_count, st.max_data_count)])
        Counted(sorted, st) ==
            IF st.err # NoError THEN Failed(st.err, sorted)
            ELSE Fill(sorted, st,
                      Placements(st.data_indices, st.mach_count,
                                 st.max_alt_count, Len(sorted[MACH])))
        Sorted(sorted) == Counted(sorted, count_data(sorted, ml))
    IN  IF ~SameLengths(dat) THEN Failed(ValueError, dat)
        ELSE Sorted(sort_data(dat))

(***************************************************************************)
(* EngineDeck._set_reference_thrust                                         *)
(* options is a function from the names of the options that are set to      *)
(* their values (self.options); engine_mapping is its DOMAIN on entry.      *)
(***************************************************************************)
REFERENCE_SLS_THRUST == "REFERENCE_SLS_THRUST"

SCALE_FACTOR == "SCALE_FACTOR"

SCALED_SLS_THRUST == "SCALED_SLS_THRUST"

SCALE_PERFORMANCE == "SCALE_PERFORMANCE"

IGNORE_NEGATIVE_THRUST == "IGNORE_NEGATIVE_THRUST"

GENERATE_FLIGHT_IDLE == "GENERATE_FLIGHT_IDLE"

FLIGHT_IDLE_THRUST_FRACTION == "FLIGHT_IDLE_THRUST_FRACTION"

FLIGHT_IDLE_MIN_FRACTION == "FLIGHT_IDLE_MIN_FRACTION"

FLIGHT_IDLE_MAX_FRACTION == "FLIGHT_IDLE_MAX_FRACTION"

\* self.set_val(key, val)
set_val(opts, key, val) ==
    [k \in DOMAIN opts \cup {key} |-> IF k = key THEN val ELSE opts[k]]

\* np.intersect1d(np.where(-alt_tol < ALTITUDE), np.where(ALTITUDE <= alt_tol))
sea_level(alt) == RLt(RNeg(alt_tol), alt) /\ RLe(alt, alt_tol)

\* np.intersect1d(np.where(-mach_tol < MACH), np.where(MACH < mach_tol))
static(mach) == RLt(RNeg(mach_tol), mach) /\ RLt(mach, mach_tol)

RECURSIVE SlsFrom(_, _)
SlsFrom(dat, i) ==
    IF i > Len(dat[ALTITUDE]) \/ i > Len(dat[MACH]) THEN <<>>
    ELSE IF sea_level(dat[ALTITUDE][i]) /\ static(dat[MACH][i])
    THEN <<i>> \o SlsFrom(dat, i + 1)
    ELSE SlsFrom(dat, i + 1)

\* sls_idx: the positions of the sea-level static samples, increasing
sls_idx(dat) == SlsFrom(dat, 1)

\* max(self.data[THRUST][sls_idx])
reference_sls_thrust(dat) == PyMax(Take(dat[THRUST], sls_idx(dat)))

\* not math.isclose(scaled_thrust / ref_thrust, scale_factor)
ScalingConflict(scaled_thrust, ref_thrust, scale_factor) ==
    ~IsClose(RDiv(scaled_thrust, ref_thrust), scale_factor, R(0))

\* a different reading of the scale factor: scaled_thrust = ref_thrust / scale_factor
ScaledFromFactorDivided(ref_thrust, scale_factor) == RDiv(ref_thrust, scale_factor)

\* scaled_thrust = ref_thrust * scale_factor
ScaledFromFactor(ref_thrust, scale_factor) == RMul(ref_thrust, scale_factor)

\* The second half of _set_reference_thrust: the scaling options reconciled
\* with the reference thrust.  zero_div: whether a division by a zero
\* reference thrust raises (Python floats) or gives inf/nan (numpy floats).
resolve_scaling(opts, engine_mapping, zero_div) ==
    LET scale_performance == opts[SCALE_PERFORMANCE]
        scale_factor_provided == SCALE_FACTOR \in engine_mapping
        thrust_provided == SCALED_SLS_THRUST \in engine_mapping
        ref_thrust == opts[REFERENCE_SLS_THRUST]
    IN  IF scale_factor_provided
        THEN IF thrust_provided
             THEN IF scale_performance
                  THEN IF zero_div /\ ref_thrust = R(0)
                       THEN [err |-> ZeroDivisionError, options |-> opts]
                       ELSE IF ScalingConflict(opts[SCALED_SLS_THRUST],
                                               ref_thrust, opts[SCALE_FACTOR])
                       THEN [err |-> ScalingConflictError, options |-> opts]
                       ELSE [err |-> NoError, options |-> opts]
                  ELSE [err |-> NoError,
                        options |-> set_val(opts, SCALED_SLS_THRUST, ref_thrust)]
             ELSE [err |-> NoError,
                   options |-> set_val(opts, SCALED_SLS_THRUST,
                       ScaledFromFactor(ref_thrust, opts[SCALE_FACTOR]))]
        ELSE IF ~thrust_provided
        THEN IF scale_performance
             THEN [err |-> NoError,
                   options |-> set_val(set_val(opts, SCALE_FACTOR, R(1)),
                                       SCALED_SLS_THRUST, ref_thrust)]
             ELSE [err |-> NoError,
                   options |-> set_val(opts, SCALED_SLS_THRUST, ref_thrust)]
        ELSE [err |-> NoError, options |-> opts]

\* The whole of _set_reference_thrust.
set_reference_thrust(dat, opts, zero_div) ==
    LET engine_mapping == DOMAIN opts
    IN  IF REFERENCE_SLS_THRUST \notin engine_mapping
        THEN IF Len(sls_idx(dat)) = 0
             THEN [err |-> NoSeaLevelStaticPointError, options |-> opts]
             ELSE resolve_scaling(
                      set_val(opts, REFERENCE_SLS_THRUST,
                              reference_sls_thrust(dat)),
                      engine_mapping, zero_div)
        ELSE resolve_scaling(opts, engine_mapping, zero_div)

(***************************************************************************)
(* normalize and EngineDeck._normalize_throttle (global scope: the code     *)
(* fixes self.global_throttle = self.global_hybrid_throttle = True)         *)
(***************************************************************************)
\* normalize(base_list, maximum, minimum)
normalize_with(base_list, maximum, minimum) ==
    [i \in DOMAIN base_list |->
        RDiv(RSub(base_list[i], minimum), RSub(maximum, minimum))]

\* normalize(base_list): the extremes taken from the list
normalize(base_list) ==
    normalize_with(base_list, PyMax(base_list), PyMin(base_list))

\* the negative values normalized with the shift by -1 left out
hybrid_negative_unshifted(hybrid_throttle_list) ==
    LET Onto(lo) ==
            [i \in DOMAIN hybrid_throttle_list |->
                IF RLt(hybrid_throttle_list[i], R(0))
                THEN RDiv(RSub(hybrid_throttle_list[i], lo), RSub(R(0), lo))
                ELSE hybrid_throttle_list[i]]
        Negative(negs) ==
            IF negs = <<>> THEN hybrid_throttle_list ELSE Onto(PyMin(negs))
    IN  Negative(Take(hybrid_throttle_list,
                      Where(LAMBDA x : RLt(x, R(0)), hybrid_throttle_list)))

\* the first normalization of _hybrid_throttle_norm: the negative values onto
\* [-1, 0] with normalize(..., minimum=min, maximum=0) - 1
hybrid_negative_norm(hybrid_throttle_list) ==
    LET Onto(lo) ==
            [i \in DOMAIN hybrid_throttle_list |->
                IF RLt(hybrid_throttle_list[i], R(0))
                THEN RSub(RDiv(RSub(hybrid_throttle_list[i], lo),
                               RSub(R(0), lo)), R(1))
                ELSE hybrid_throttle_list[i]]
        Negative(negs) ==
            IF negs = <<>> THEN hybrid_throttle_list ELSE Onto(PyMin(negs))
    IN  Negative(Take(hybrid_throttle_list,
                      Where(LAMBDA x : RLt(x, R(0)), hybrid_throttle_list)))

\* the second: the positive values onto [0, 1] with
\* normalize(..., minimum=0, maximum=max)
hybrid_positive_norm(hybrid_throttle_list) ==
    LET Onto(hi) ==
            [i \in DOMAIN hybrid_throttle_list |->
                IF RGt(hybrid_throttle_list[i], R(0))
                THEN RDiv(RSub(hybrid_throttle_list[i], R(0)), RSub(hi, R(0)))
                ELSE hybrid_throttle_list[i]]
        Positive(poss) ==
            IF poss = <<>> THEN hybrid_throttle_list ELSE Onto(PyMax(poss))
    IN  Positive(Take(hybrid_throttle_list,
                      Where(LAMBDA x : RGt(x, R(0)), hybrid_throttle_list)))

\* _hybrid_throttle_norm
hybrid_throttle_norm(hybrid_throttle_list) ==
    hybrid_positive_norm(hybrid_negative_norm(hybrid_throttle_list))

\* The whole of _normalize_throttle, with the _pack_data that ends it; the
\* extremes of an empty list raise before anything is written.
normalize_throttle(dat, ml, use_hybrid, old) ==
    LET Outcome(pk, sc) ==
            [err |-> pk.err, data |-> pk.data, scale |-> sc, pack |-> pk]
        Hybrid(d1) ==
            IF use_hybrid
            THEN [d1 EXCEPT ![HYBRID_THROTTLE] =
                      hybrid_throttle_norm(dat[HYBRID_THROTTLE])]
            ELSE d1
        Throttle(thr) ==
            Outcome(pack_data(Hybrid([dat EXCEPT ![THROTTLE] = thr]), ml),
                    [throttle_min |-> PyMin(thr), throttle_max |-> PyMax(thr),
                     hybrid_throttle_min |->
                         IF use_hybrid THEN PyMin(dat[HYBRID_THROTTLE])
                         ELSE old.hybrid_throttle_min,
                     hybrid_throttle_max |->
                         IF use_hybrid THEN PyMax(dat[HYBRID_THROTTLE])
                         ELSE old.hybrid_throttle_max])
    IN  IF Len(dat[THROTTLE]) = 0
           \/ (use_hybrid /\ Len(dat[HYBRID_THROTTLE]) = 0)
        THEN [err |-> ValueError, data |-> dat, scale |-> old]
        ELSE Throttle(normalize(dat[THROTTLE]))

(***************************************************************************)
(* EngineDeck._generate_flight_idle                                         *)
(***************************************************************************)
\* throttle_idle = -0.1, hybrid_throttle_idle = 0, h_tol = 1e-4
throttle_idle == Q(-1, 10)

hybrid_throttle_idle == R(0)

h_tol == Q(1, 10000)

IndependentVars == {MACH, ALTITUDE, THROTTLE, HYBRID_THROTTLE}

\* direct_calc_vars, in the order the code appends them
direct_calc_vars(ev) ==
    (IF THRUST \in ev THEN <<THRUST>> ELSE <<>>)
    \o (IF SHAFT_POWER_CORRECTED \in ev THEN <<SHAFT_POWER_CORRECTED>> ELSE <<>>)
    \o (IF SHAFT_POWER \in ev THEN <<SHAFT_POWER>> ELSE <<>>)

\* the keys that go through the extrapolation and the min/max clamp
NonDirectVars(ev) == DataKeys \ (IndependentVars \cup Range(direct_calc_vars(ev)))

\* num_points
num_points(use_hybrid) == IF use_hybrid THEN 3 ELSE 1

\* the (M, A) pairs for which the loop appends an idle point: data present and
\* thrust at the lowest index above thrust_tol
IdleCells(packed, di, mmax, amax) ==
    SelectSeq(Cells(mmax, amax),
              LAMBDA c : /\ di[c[1]][c[2]] # 0
                         /\ ~RLe(packed[THRUST][c[1]][c[2]][1], thrust_tol))

\* idle_value clamped to [var_min, var_max] as the code does it
Clamp(idle_value, var_min, var_max) ==
    IF RLt(idle_value, var_min) THEN var_min
    ELSE IF RGt(idle_value, var_max) THEN var_max
    ELSE idle_value

\* the slot the code reads the clamp's reference value from:
\* packed_data[key][M, A, -1], the last slot of the padded bin
ClampSlot(dmax, n) == dmax

\* the slot the code reads a direct variable's base value from in a bin whose
\* entry of data_indices is n >= 2: packed_data[var][M, A, data_indices[M, A] - 1]
DirectSlot(n) == n

\* idle value of a direct-calculation variable in a bin whose entry is n
DirectIdle(arr, n, fract) ==
    IF n = 1 THEN RMul(arr[1], fract) ELSE RMul(arr[DirectSlot(n)], fract)

\* extrap_term as the last variable of direct_calc_vars leaves it
extrap_term(packed, c, n, direct, fract) ==
    LET arr == packed[direct[Len(direct)]][c[1]][c[2]]
    IN  RDiv(RSub(DirectIdle(arr, n, fract), arr[1]), RSub(arr[2], arr[1]))

\* _extrapolate(array)
extrapolate(array, term) ==
    IF array[1] = R(0) /\ array[2] = R(0) THEN R(0)
    ELSE RAdd(array[1], RMul(RSub(array[2], array[1]), term))

\* idle value of a non-direct dependent variable in a bin whose entry is n
NonDirectIdle(packed, key, c, n, dmax, direct, opts) ==
    LET arr == packed[key][c[1]][c[2]]
        var_min == RMul(arr[ClampSlot(dmax, n)], opts[FLIGHT_IDLE_MIN_FRACTION])
        var_max == RMul(arr[ClampSlot(dmax, n)], opts[FLIGHT_IDLE_MAX_FRACTION])
        raw == IF n = 1
               THEN RMul(arr[1], opts[FLIGHT_IDLE_THRUST_FRACTION])
               ELSE extrapolate(arr, extrap_term(packed, c, n, direct,
                                    opts[FLIGHT_IDLE_THRUST_FRACTION]))
    IN  Clamp(raw, var_min, var_max)

\* the values appended to idle_points[key] for the bin c
IdleOfCell(packed, di, dmax, key, c, ev, use_hybrid, opts) ==
    LET n == di[c[1]][c[2]]
        np == num_points(use_hybrid)
        direct == direct_calc_vars(ev)
    IN  IF key \in {MACH, ALTITUDE} THEN Repeat(packed[key][c[1]][c[2]][1], np)
        ELSE IF key = THROTTLE THEN Repeat(throttle_idle, np)
        ELSE IF key = HYBRID_THROTTLE
        THEN IF use_hybrid
             THEN <<RSub(hybrid_throttle_idle, h_tol), hybrid_throttle_idle,
                    RAdd(hybrid_throttle_idle, h_tol)>>
             ELSE <<hybrid_throttle_idle>>
        ELSE IF key \in Range(direct)
        THEN Repeat(DirectIdle(packed[key][c[1]][c[2]], n,
                               opts[FLIGHT_IDLE_THRUST_FRACTION]), np)
        ELSE Repeat(NonDirectIdle(packed, key, c, n, dmax, direct, opts), np)

\* the exception, if any, that processing the bin c raises
IdleCellErr(packed, di, dmax, c, ev) ==
    LET n == di[c[1]][c[2]]
        direct == direct_calc_vars(ev)
    IN  IF n = 1 THEN NoError
        ELSE IF dmax < 2 \/ (direct # <<>> /\ DirectSlot(n) > dmax)
        THEN IndexError
        ELSE IF /\ direct = <<>>
                /\ \E key \in NonDirectVars(ev) :
                      ~(packed[key][c[1]][c[2]][1] = R(0)
                        /\ packed[key][c[1]][c[2]][2] = R(0))
        THEN NameError
        ELSE NoError

RECURSIVE FirstIdleErr(_, _, _, _, _, _)
FirstIdleErr(packed, di, dmax, cells, i, ev) ==
    IF i > Len(cells) THEN NoError
    ELSE IF IdleCellErr(packed, di, dmax, cells[i], ev) # NoError
    THEN IdleCellErr(packed, di, dmax, cells[i], ev)
    ELSE FirstIdleErr(packed, di, dmax, cells, i + 1, ev)

RECURSIVE IdleFrom(_, _, _, _, _, _, _, _, _)
IdleFrom(packed, di, dmax, key, cells, i, ev, use_hybrid, opts) ==
    IF i > Len(cells) THEN <<>>
    ELSE IdleOfCell(packed, di, dmax, key, cells[i], ev, use_hybrid, opts)
         \o IdleFrom(packed, di, dmax, key, cells, i + 1, ev, use_hybrid, opts)

\* idle_points when the loops end
idle_points_of(packed, di, mmax, amax, dmax, ev, use_hybrid, opts) ==
    [key \in DOMAIN packed |->
        IdleFrom(packed, di, dmax, key, IdleCells(packed, di, mmax, amax), 1,
                 ev, use_hybrid, opts)]

\* The whole of _generate_flight_idle: idle points computed and appended,
\* model_length updated, then _pack_data and _normalize_throttle.
generate_flight_idle(dat, packed, di, mmax, amax, dmax, ev, use_hybrid, opts, old) ==
    LET Outcome(e, d, ml, ip, sc, pk, made) ==
            [err |-> e, data |-> d, model_length |-> ml, idle_points |-> ip,
             scale |-> sc, pack |-> pk, calls |-> made]
        Normalized(ml, ip, nt) ==
            Outcome(nt.err, nt.data, ml, ip, nt.scale, nt.pack,
                    <<"pack", "normalize">>)
        Repacked(ml, ip, pk) ==
            IF pk.err # NoError
            THEN Outcome(pk.err, pk.data, ml, ip, old, pk, <<"pack">>)
            ELSE Normalized(ml, ip, normalize_throttle(pk.data, ml, use_hybrid, old))
        Appended(d1, ip) ==
            Repacked(Len(d1[ALTITUDE]), ip, pack_data(d1, Len(d1[ALTITUDE])))
        Points(ip) == Appended([k \in DOMAIN dat |-> dat[k] \o ip[k]], ip)
    IN  IF FirstIdleErr(packed, di, dmax, IdleCells(packed, di, mmax, amax), 1, ev)
           # NoError
        THEN [err |-> FirstIdleErr(packed, di, dmax,
                                   IdleCells(packed, di, mmax, amax), 1, ev),
              data |-> dat, idle_points |-> [k \in DOMAIN packed |-> <<>>],
              scale |-> old]
        ELSE Points(idle_points_of(packed, di, mmax, amax, dmax, ev,
                                   use_hybrid, opts))

(***************************************************************************)
(* The state of one EngineDeck under construction.                          *)
(***************************************************************************)
VARIABLES
    pc,                  \* the stage _setup runs next, or "done" / "failed"
    hist,                \* the stages run so far, in order
    calls,               \* the methods _setup and _generate_flight_idle called
    err,                 \* the exception that ended construction, or NoError
    named_values,        \* the caller's in-memory table (NamedValues), or <<>>
    raw_data,            \* the input table: recognized header -> column
    required_variables,  \* self.required_variables
    options,             \* self.options: option name -> value
    original_data,       \* self._original_data
    data,                \* self.data
    model_length,        \* self.model_length
    engine_variables,    \* the keys of self.engine_variables
    use_thrust,          \* self.use_thrust
    use_hybrid_throttle, \* self.use_hybrid_throttle
    mach_max_count,      \* self.mach_max_count
    alt_max_count,       \* self.alt_max_count
    data_max_count,      \* self.data_max_count
    data_indices,        \* self.data_indices
    packed_data,         \* self.packed_data
    throttle_scale,      \* self.throttle_min/max, self.hybrid_throttle_min/max
    idle_points,         \* self.idle_points
    power_type           \* TurboPropDeck's power_type argument, or NoPowerType

vars ==
    <<pc, hist, calls, err, named_values, raw_data, required_variables, options,
      original_data,
      data, model_length, engine_variables, use_thrust, use_hybrid_throttle,
      mach_max_count, alt_max_count, data_max_count, data_indices,
      packed_data, throttle_scale, idle_points, power_type>>

inputs == <<named_values, raw_data, required_variables, power_type>>

packing ==
    <<mach_max_count, alt_max_count, data_max_count, data_indices, packed_data>>

(***************************************************************************)
(* The inputs the model draws: tables and options a caller can pass.        *)
(***************************************************************************)
\* the largest number of samples drawn for one (Mach, altitude) cell of a grid
MaxPerBin == 3

\* the largest number of rows of a freely drawn table
MaxRows == 3

\* a table from a list of rows (key -> value), keeping the columns in present
TableOf(rows, present) ==
    [k \in present |-> [i \in 1..Len(rows) |-> rows[i][k]]]

\* the options every deck of the model carries (the required options, set by
\* the caller or defaulted by _preprocess_inputs)
BaseOptions(scale_performance, ignore_neg, idle) ==
    [k \in {SCALE_PERFORMANCE, IGNORE_NEGATIVE_THRUST, GENERATE_FLIGHT_IDLE} |->
        IF k = SCALE_PERFORMANCE THEN scale_performance
        ELSE IF k = IGNORE_NEGATIVE_THRUST THEN ignore_neg
        ELSE idle]

WithIdleFractions(opts, fract, lo, hi) ==
    set_val(set_val(set_val(opts, FLIGHT_IDLE_THRUST_FRACTION, fract),
                    FLIGHT_IDLE_MIN_FRACTION, lo),
            FLIGHT_IDLE_MAX_FRACTION, hi)

\* a deck's options with the idle fractions a deck that synthesizes idle
\* points must carry
IdleOptions(opts) ==
    IF opts[GENERATE_FLIGHT_IDLE]
    THEN WithIdleFractions(opts, Q(1, 10), Q(1, 20), R(1))
    ELSE opts

\* Grid tables: Mach 0 at 0 and 1000 ft, Mach 0.4 at 0, 1000 and 2000 ft,
\* cnt[g, k] samples in cell (g, k) at raw throttles 0.25 j, thrust and fuel
\* flow rising with throttle. The lowest-throttle thrust is 20 lbf except in
\* the cell Mach 0.4 / 0 ft, where it is 1 lbf (= thrust_tol).
GridMach == 1..2

GridAlt == 1..3

GridCells == {c \in GridMach \X GridAlt : c[1] = 2 \/ c[2] < 3}

GridRow(g, k, j) ==
    [key \in EngineModelVariables |->
        IF key = MACH THEN Q(2 * (g - 1), 5)
        ELSE IF key = ALTITUDE THEN R(1000 * (k - 1))
        ELSE IF key = THROTTLE THEN Q(j, 4)
        ELSE IF key = THRUST
        THEN R((IF g = 2 /\ k = 1 THEN 1 ELSE 20) + 10 * (j - 1) * g)
        ELSE IF key = FUEL_FLOW THEN R(40 * j + 8 * k)
        ELSE R(0)]

RECURSIVE GridRowsFrom(_, _, _, _)
GridRowsFrom(cnt, g, k, j) ==
    IF g \notin GridMach THEN <<>>
    ELSE IF k \notin GridAlt THEN GridRowsFrom(cnt, g + 1, 1, 1)
    ELSE IF <<g, k>> \notin GridCells \/ j > cnt[<<g, k>>]
    THEN GridRowsFrom(cnt, g, k + 1, 1)
    ELSE <<GridRow(g, k, j)>> \o GridRowsFrom(cnt, g, k, j + 1)

GridTable(cnt) ==
    TableOf(GridRowsFrom(cnt, 1, 1, 1),
            {MACH, ALTITUDE, THROTTLE, THRUST, FUEL_FLOW})

\* FLIGHT_IDLE_THRUST_FRACTION, FLIGHT_IDLE_MIN_FRACTION, FLIGHT_IDLE_MAX_FRACTION
IdleFractions == {<<Q(1, 10), Q(1, 20), R(1)>>, <<Q(1, 2), Q(3, 5), Q(4, 5)>>}

InitGrid ==
    \E cnt \in [GridCells -> 0..MaxPerBin], fr \in IdleFractions :
        /\ raw_data = GridTable(cnt)
        /\ required_variables = default_required_variables
        /\ options = WithIdleFractions(BaseOptions(FALSE, FALSE, TRUE),
                                       fr[1], fr[2], fr[3])

\* Thrust-source tables: one or two samples of one bin; every choice of which
\* of MACH, ALTITUDE, THROTTLE, THRUST, GROSS_THRUST, RAM_DRAG and
\* TAILPIPE_THRUST the table has; gross thrust minus ram drag differing from
\* the net thrust by 0, 1 (= thrust_tol) or 2 lbf; a negative-thrust sample.
SourceValues ==
    {<<5, 5, 0, 2>>, <<5, 6, 0, 2>>, <<5, 7, 0, 2>>, <<-3, -3, 0, 1>>}

SourceRow(v, j) ==
    [key \in EngineModelVariables |->
        IF key = MACH THEN R(0)
        ELSE IF key = ALTITUDE THEN R(0)
        ELSE IF key = THROTTLE THEN Q(j, 4)
        ELSE IF key = THRUST THEN R(v[1])
        ELSE IF key = GROSS_THRUST THEN R(v[2])
        ELSE IF key = RAM_DRAG THEN R(v[3])
        ELSE IF key = TAILPIPE_THRUST THEN R(v[4])
        ELSE R(0)]

SourceLens == 1..2

SourceColumns ==
    {a \cup b : a \in SUBSET {MACH, ALTITUDE, THROTTLE},
                b \in SUBSET {THRUST, GROSS_THRUST, RAM_DRAG, TAILPIPE_THRUST}}

RequiredSets == {default_required_variables, {MACH, ALTITUDE, THROTTLE, FUEL_FLOW}}

InitSources ==
    \E n \in SourceLens, present \in SourceColumns, req \in RequiredSets,
       ignore_neg \in BOOLEAN, idle \in BOOLEAN :
      \E vs \in [1..n -> SourceValues] :
        /\ raw_data = TableOf([j \in 1..n |-> SourceRow(vs[j], j)], present)
        /\ required_variables = req
        /\ options = IdleOptions(BaseOptions(FALSE, ignore_neg, idle))

\* Sea-level-static tables: up to MaxRows samples in any order with Mach in
\* {-0.01, 0, 0.01} and altitude in {-10, 0, 10, 1000} ft (the tolerances and
\* both of their signs), thrust rising or falling with the row number.
SlsMach == {Q(-1, 100), R(0), Q(1, 100)}

SlsAlt == {R(-10), R(0), R(10), R(1000)}

SlsRow(m, a, j, n, desc) ==
    [key \in EngineModelVariables |->
        IF key = MACH THEN m
        ELSE IF key = ALTITUDE THEN a
        ELSE IF key = THROTTLE THEN Q(j, 4)
        ELSE IF key = THRUST THEN R(IF desc THEN 3 + 4 * (n - j) ELSE 3 + 4 * (j - 1))
        ELSE R(0)]

InitSls ==
    \E n \in 1..MaxRows, desc \in BOOLEAN, idle \in BOOLEAN :
      \E ms \in [1..n -> SlsMach], as \in [1..n -> SlsAlt] :
        /\ raw_data = TableOf([j \in 1..n |-> SlsRow(ms[j], as[j], j, n, desc)],
                              {MACH, ALTITUDE, THROTTLE, THRUST})
        /\ required_variables = default_required_variables
        /\ options = IdleOptions(BaseOptions(FALSE, FALSE, idle))

\* Scaling decks: one sea-level static sample; REFERENCE_SLS_THRUST,
\* SCALE_FACTOR and SCALED_SLS_THRUST each given or not, scaling on or off.
ScalingThrusts == {0, 4}

ReferenceChoices == {<<>>, <<R(0)>>, <<R(4)>>, <<R(5)>>}

ScaleFactorChoices == {<<>>, <<Q(1, 2)>>, <<R(1)>>, <<R(2)>>}

ScaledThrustChoices == {<<>>, <<R(0)>>, <<R(2)>>, <<R(4)>>, <<R(8)>>}

\* opts with key set to the value in choice, a sequence of length 0 or 1
WithChoice(opts, key, choice) ==
    IF choice = <<>> THEN opts ELSE set_val(opts, key, choice[1])

ScalingRow(t) ==
    [key \in EngineModelVariables |->
        IF key = THROTTLE THEN R(1)
        ELSE IF key = THRUST THEN R(t)
        ELSE R(0)]

InitScaling ==
    \E t \in ScalingThrusts, ref \in ReferenceChoices, sf \in ScaleFactorChoices,
       st \in ScaledThrustChoices, scale_performance \in BOOLEAN,
       idle \in BOOLEAN :
        /\ raw_data = TableOf(<<ScalingRow(t)>>,
                              {MACH, ALTITUDE, THROTTLE, THRUST})
        /\ required_variables = default_required_variables
        /\ options = WithChoice(WithChoice(WithChoice(
                         IdleOptions(BaseOptions(scale_performance, FALSE, idle)),
                         REFERENCE_SLS_THRUST, ref), SCALE_FACTOR, sf),
                         SCALED_SLS_THRUST, st)

\* The table of the specification's concrete scenario, with and without idle
\* synthesis.
ScenarioTable ==
    [k \in {MACH, ALTITUDE, THROTTLE, THRUST} |->
        IF k = MACH THEN <<R(0), R(0), Q(4, 5), Q(4, 5)>>
        ELSE IF k = ALTITUDE THEN <<R(0), R(0), R(35000), R(35000)>>
        ELSE IF k = THROTTLE THEN <<R(1), Q(3, 5), R(1), Q(3, 5)>>
        ELSE <<R(25000), R(15000), R(8000), R(5000)>>]

InitScenario ==
    \E idle \in BOOLEAN :
        /\ raw_data = ScenarioTable
        /\ required_variables = default_required_variables
        /\ options = IdleOptions(BaseOptions(FALSE, FALSE, idle))

\* Throttle tables: Mach 0 with one sample at 0 ft, or two samples at 0 ft and
\* one at 1000 ft; raw throttles and hybrid throttles outside their normalized
\* ranges; HYBRID_THROTTLE given or not; thrust rising with throttle.
ThrottleValues == {Q(1, 2), R(1), R(2)}

HybridValues == {R(-2), R(-1), R(0), Q(1, 2), R(2)}

ThrottleLens == {1, 3}

ThrottleRow(j, t, h) ==
    [key \in EngineModelVariables |->
        IF key = ALTITUDE THEN R(IF j = 3 THEN 1000 ELSE 0)
        ELSE IF key = THROTTLE THEN t
        ELSE IF key = HYBRID_THROTTLE THEN h
        ELSE IF key = THRUST THEN RMul(R(20), t)
        ELSE R(0)]

InitThrottle ==
    \E n \in ThrottleLens, hybrid \in BOOLEAN, idle \in BOOLEAN :
      \E ts \in [1..n -> ThrottleValues],
         hs \in [1..n -> IF hybrid THEN HybridValues ELSE {R(0)}] :
        /\ raw_data = TableOf([j \in 1..n |-> ThrottleRow(j, ts[j], hs[j])],
                              {MACH, ALTITUDE, THROTTLE, THRUST}
                                  \cup (IF hybrid THEN {HYBRID_THROTTLE} ELSE {}))
        /\ required_variables = default_required_variables
        /\ options = IdleOptions(BaseOptions(FALSE, FALSE, idle))

\* Settings.VERBOSITY, as the integer of its enum: 0 quiet, 1 brief, 2 verbose
VERBOSITY == "VERBOSITY"

Verbosities == 0..2

\* get_val of an option that was never set
KeyError == "KeyError"

\* _MetaData[key]['default_value'] of the options the deck defaults
default_value(key) ==
    CASE key = SCALE_PERFORMANCE -> TRUE
      [] key = IGNORE_NEGATIVE_THRUST -> FALSE
      [] key = GENERATE_FLIGHT_IDLE -> FALSE
      [] key = FLIGHT_IDLE_THRUST_FRACTION -> R(0)
      [] key = FLIGHT_IDLE_MIN_FRACTION -> Q(2, 25)
      [] key = FLIGHT_IDLE_MAX_FRACTION -> R(1)

\* the required options the deck's stages read, in the order of the tuple
required_options ==
    <<SCALE_PERFORMANCE, IGNORE_NEGATIVE_THRUST, GENERATE_FLIGHT_IDLE>>

dependent_options ==
    <<FLIGHT_IDLE_THRUST_FRACTION, FLIGHT_IDLE_MIN_FRACTION,
      FLIGHT_IDLE_MAX_FRACTION>>

\* the loop over the required options: a missing one is defaulted, inside the
\* branch that warns about it
RECURSIVE required_from(_, _)
required_from(opts, i) ==
    IF i > Len(required_options) THEN opts
    ELSE IF required_options[i] \notin DOMAIN opts /\ opts[VERBOSITY] >= 1
    THEN required_from(set_val(opts, required_options[i],
                               default_value(required_options[i])), i + 1)
    ELSE required_from(opts, i + 1)

\* the loop over the options GENERATE_FLIGHT_IDLE depends on
RECURSIVE dependent_from(_, _)
dependent_from(opts, i) ==
    IF i > Len(dependent_options) THEN opts
    ELSE IF dependent_options[i] \notin DOMAIN opts
    THEN dependent_from(set_val(opts, dependent_options[i],
                                default_value(dependent_options[i])), i + 1)
    ELSE dependent_from(opts, i + 1)

\* the logic check of the idle fractions: flipped inside the branch that warns
flip_fractions(opts) ==
    IF RGt(opts[FLIGHT_IDLE_MIN_FRACTION], opts[FLIGHT_IDLE_MAX_FRACTION])
       /\ opts[VERBOSITY] >= 1
    THEN set_val(set_val(opts, FLIGHT_IDLE_MIN_FRACTION,
                         opts[FLIGHT_IDLE_MAX_FRACTION]),
                 FLIGHT_IDLE_MAX_FRACTION, opts[FLIGHT_IDLE_MIN_FRACTION])
    ELSE opts

\* _preprocess_inputs: the options it leaves and the exception it ends with
preprocess_inputs(opts) ==
    LET required == required_from(opts, 1)
    IN  IF GENERATE_FLIGHT_IDLE \notin DOMAIN required
        THEN [options |-> required, err |-> KeyError]
        ELSE LET checked ==
                   IF required[GENERATE_FLIGHT_IDLE]
                   THEN flip_fractions(dependent_from(required, 1))
                   ELSE required
             IN  IF SCALE_PERFORMANCE \notin DOMAIN checked
                 THEN [options |-> checked, err |-> KeyError]
                 ELSE [options |-> checked, err |-> NoError]

\* Option sets as a caller gives them: GENERATE_FLIGHT_IDLE given or not, the
\* idle fractions given in either order or not at all, at every verbosity;
\* one sea-level static sample, with fuel flow.
IdleChoices == {<<>>, <<FALSE>>, <<TRUE>>}

FractionChoices ==
    {<<>>, <<Q(1, 20), R(1)>>, <<R(1), Q(1, 20)>>, <<Q(1, 2), Q(1, 2)>>}

OptionThrusts == {20, 40}

OptionRow(t) ==
    [key \in EngineModelVariables |->
        IF key = THROTTLE THEN R(1)
        ELSE IF key = THRUST THEN R(t)
        ELSE IF key = FUEL_FLOW THEN R(10)
        ELSE R(0)]

GivenOptions(verbosity, idle, fractions) ==
    LET base == [k \in {VERBOSITY, SCALE_PERFORMANCE, IGNORE_NEGATIVE_THRUST} |->
                    IF k = VERBOSITY THEN verbosity ELSE FALSE]
        with_idle == WithChoice(base, GENERATE_FLIGHT_IDLE, idle)
    IN  IF fractions = <<>> THEN with_idle
        ELSE WithIdleFractions(with_idle, Q(1, 10), fractions[1], fractions[2])

InitOptions ==
    \E verbosity \in Verbosities, idle \in IdleChoices,
       fractions \in FractionChoices, t \in OptionThrusts :
        /\ raw_data = TableOf(<<OptionRow(t)>>,
                              {MACH, ALTITUDE, THROTTLE, THRUST, FUEL_FLOW})
        /\ required_variables = default_required_variables
        /\ options = GivenOptions(verbosity, idle, fractions)

\* In-memory tables as a caller heads them: one sample at sea level static,
\* the Mach and thrust columns under spellings of every kind (aliases as
\* registered, in upper case, with blanks, and strings that are no alias).
MachHeaders ==
    {"mach", "m", "mn", "mach_number", "Mach", "MACH", "mach number",
     "Mach Number", "mach_no", "e"}

ThrustHeaders ==
    {"thrust", "net_thrust", "Net Thrust", "THRUST", "power", "t", "push"}

HeadedTable(mach_header, thrust_header) ==
    <<[header |-> mach_header, values |-> <<R(0)>>],
      [header |-> "alt", values |-> <<R(0)>>],
      [header |-> "pc", values |-> <<R(1)>>],
      [header |-> thrust_header, values |-> <<R(4)>>]>>

InitHeaders ==
    \E mach_header \in MachHeaders, thrust_header \in ThrustHeaders,
       idle \in BOOLEAN :
        /\ named_values = HeadedTable(mach_header, thrust_header)
        /\ raw_data = <<>>
        /\ required_variables = default_required_variables
        /\ options = IdleOptions(BaseOptions(FALSE, FALSE, idle))

\* the deck is an EngineDeck, which has no power_type argument
NoPowerType == "EngineDeck"

(***************************************************************************)
(* EngineDeck.__init__: the fields before _setup runs.                      *)
(***************************************************************************)
InitialScale ==
    [throttle_min |-> R(0), throttle_max |-> R(1),
     hybrid_throttle_min |-> R(0), hybrid_throttle_max |-> R(1)]

Fields ==
    /\ hist = <<>>
    /\ calls = <<>>
    /\ err = NoError
    /\ original_data = [key \in EngineModelVariables |-> <<>>]
    /\ data = [key \in DataKeys |-> <<>>]
    /\ model_length = 0
    /\ engine_variables = {}
    /\ use_thrust = FALSE
    /\ use_hybrid_throttle = FALSE
    /\ mach_max_count = 0
    /\ alt_max_count = 0
    /\ data_max_count = 0
    /\ data_indices = << <<>> >>
    /\ packed_data = EmptyPacked
    /\ throttle_scale = InitialScale
    /\ idle_points = [key \in DataKeys |-> <<>>]

\* the decks of the other families come keyed by the enum, as a table read
\* from a data file does: no in-memory table is run through the aliases
Constructed ==
    pc = "read" /\ named_values = <<>> /\ power_type = NoPowerType /\ Fields

Init ==
    /\ InitGrid \/ InitSources \/ InitSls \/ InitScaling \/ InitScenario
    /\ Constructed

\* the input families one at a time
InitGridDecks == (InitGrid \/ InitScenario) /\ Constructed

InitSourceDecks == InitSources /\ Constructed

InitSlsDecks == InitSls /\ Constructed

InitScalingDecks == InitScaling /\ Constructed

InitThrottleDecks == InitThrottle /\ Constructed

\* TurboPropDecks: the power_type argument one of the two shaft powers or
\* THRUST (not a power type); the table a grid table, or one sample with any
\* of THRUST, SHAFT_POWER, SHAFT_POWER_CORRECTED and TAILPIPE_THRUST.
\* super().__init__ is called without required_variables.
PowerTypes == {SHAFT_POWER, SHAFT_POWER_CORRECTED, THRUST}

ShaftRow ==
    [key \in EngineModelVariables |->
        IF key = THROTTLE THEN R(1)
        ELSE IF key = THRUST THEN R(20)
        ELSE IF key = SHAFT_POWER THEN R(100)
        ELSE IF key = SHAFT_POWER_CORRECTED THEN R(120)
        ELSE IF key = TAILPIPE_THRUST THEN R(2)
        ELSE R(0)]

InitShaft ==
    \E present \in SUBSET {THRUST, SHAFT_POWER, SHAFT_POWER_CORRECTED,
                           TAILPIPE_THRUST}, idle \in BOOLEAN :
        /\ raw_data = TableOf(<<ShaftRow>>, {MACH, ALTITUDE, THROTTLE} \cup present)
        /\ required_variables = default_required_variables
        /\ options = IdleOptions(BaseOptions(FALSE, FALSE, idle))

InitTurboPropDecks ==
    /\ InitShaft \/ InitGrid
    /\ power_type \in PowerTypes
    /\ pc = "read"
    /\ named_values = <<>>
    /\ Fields

InitHeaderDecks ==
    /\ InitHeaders
    /\ pc = "read"
    /\ power_type = NoPowerType
    /\ Fields

\* __init__ calls _preprocess_inputs (through EngineModel.__init__) on the
\* options as given, then sets the fields and calls _setup
InitOptionDecks ==
    /\ InitOptions
    /\ pc = "preprocess"
    /\ named_values = <<>>
    /\ power_type = NoPowerType
    /\ Fields

(***************************************************************************)
(* The stages of EngineDeck._setup, one action each.                        *)
(***************************************************************************)
\* an exception leaves _setup: no later stage runs
Raise(stage, e) ==
    /\ pc' = "failed"
    /\ hist' = Append(hist, stage)
    /\ err' = e

Pass(stage, next) ==
    /\ pc' = next
    /\ hist' = Append(hist, stage)
    /\ err' = NoError

\* the methods a stage called, in the order it called them
Called(methods) == calls' = calls \o methods

\* _preprocess_inputs, called by __init__ before _setup
PreprocessInputs ==
    /\ pc = "preprocess"
    /\ Called(<<"preprocess">>)
    /\ \E r \in {preprocess_inputs(options)} :
           /\ options' = r.options
           /\ IF r.err # NoError
              THEN Raise("preprocess", r.err)
              ELSE Pass("preprocess", "read")
    /\ UNCHANGED <<inputs, original_data, data, model_length, engine_variables,
                   use_thrust, use_hybrid_throttle, packing, throttle_scale,
                   idle_points>>

\* the thrust flag taken from TAILPIPE_THRUST alone
FlagThrustFromTailpipe(ev) == TAILPIPE_THRUST \in ev

\* _set_variable_flags
FlagThrust(ev) == THRUST \in ev \/ TAILPIPE_THRUST \in ev

FlagHybrid(ev) == HYBRID_THROTTLE \in ev

\* _read_data: a table read from a file comes with its columns under the
\* keys of the enum; an in-memory table is first run through the aliases,
\* which renames the columns of the object the caller handed over
ReadData ==
    /\ pc = "read"
    /\ Called(<<"read">>)
    /\ \E table \in {IF named_values = <<>> THEN raw_data
                      ELSE run_through_aliases(named_values)} :
           /\ raw_data' = table
           /\ named_values' = IF named_values = <<>> THEN named_values
                              ELSE rename_columns(named_values)
           /\ engine_variables' = DOMAIN table
           /\ original_data' = [key \in EngineModelVariables |->
                                   IF key \in DOMAIN table THEN table[key]
                                   ELSE original_data[key]]
           /\ IF DOMAIN table = {}
              THEN /\ Raise("read", NoValidDataError)
                   /\ UNCHANGED <<data, use_thrust, use_hybrid_throttle>>
              ELSE /\ Pass("read", "check")
                   /\ use_thrust' = FlagThrust(DOMAIN table)
                   /\ use_hybrid_throttle' = FlagHybrid(DOMAIN table)
                   /\ data' = [key \in DOMAIN data |-> original_data'[key]]
    /\ UNCHANGED <<required_variables, power_type, options, model_length,
                   packing, throttle_scale, idle_points>>

\* a _check_data that writes into the arrays it was handed instead of
\* replacing them: the raw copy, sharing them, changes with the working data
CheckDataInPlace ==
    /\ pc = "check"
    /\ Called(<<"check">>)
    /\ \E r \in {check_data(original_data, data, engine_variables,
                            required_variables, options[IGNORE_NEGATIVE_THRUST])} :
           /\ data' = r.data
           /\ original_data' = [key \in DOMAIN original_data |->
                                   IF key \in DOMAIN r.data THEN r.data[key]
                                   ELSE original_data[key]]
           /\ engine_variables' = r.engine_variables
           /\ model_length' = r.model_length
           /\ IF r.err # NoError
              THEN Raise("check", r.err)
              ELSE Pass("check", "pack")
           /\ IF r.err \in {DataConsistencyError, ValueError}
              THEN UNCHANGED <<use_thrust, use_hybrid_throttle>>
              ELSE /\ use_thrust' = FlagThrust(r.engine_variables)
                   /\ use_hybrid_throttle' = FlagHybrid(r.engine_variables)
    /\ UNCHANGED <<inputs, options, packing, throttle_scale, idle_points>>

\* _check_data; it sets the variable flags once the thrust sources are settled
CheckData ==
    /\ pc = "check"
    /\ Called(<<"check">>)
    /\ \E r \in {check_data(original_data, data, engine_variables,
                            required_variables, options[IGNORE_NEGATIVE_THRUST])} :
           /\ data' = r.data
           /\ engine_variables' = r.engine_variables
           /\ model_length' = r.model_length
           /\ IF r.err # NoError
              THEN Raise("check", r.err)
              ELSE Pass("check", "pack")
           /\ IF r.err \in {DataConsistencyError, ValueError}
              THEN UNCHANGED <<use_thrust, use_hybrid_throttle>>
              ELSE /\ use_thrust' = FlagThrust(r.engine_variables)
                   /\ use_hybrid_throttle' = FlagHybrid(r.engine_variables)
    /\ UNCHANGED <<inputs, options, original_data, packing, throttle_scale,
                   idle_points>>

\* the fields _pack_data writes, from its result
SetPacking(pk) ==
    /\ mach_max_count' = pk.mach_max_count
    /\ alt_max_count' = pk.alt_max_count
    /\ data_max_count' = pk.data_max_count
    /\ data_indices' = pk.data_indices
    /\ packed_data' = pk.packed_data

\* _pack_data, then the choice _setup makes of what runs next
\* (TurboPropDeck._setup never calls _set_reference_thrust)
PackData ==
    /\ pc = "pack"
    /\ Called(<<"pack">>)
    /\ \E pk \in {pack_data(data, model_length)} :
           /\ data' = pk.data
           /\ SetPacking(pk)
           /\ IF pk.err # NoError
              THEN Raise("pack", pk.err)
              ELSE Pass("pack", IF use_thrust /\ power_type = NoPowerType
                                THEN "reference" ELSE "normalize")
    /\ UNCHANGED <<inputs, options, original_data, model_length,
                   engine_variables, use_thrust, use_hybrid_throttle,
                   throttle_scale, idle_points>>

\* _set_reference_thrust
SetReferenceThrust ==
    /\ pc = "reference"
    /\ Called(<<"reference">>)
    /\ \E zero_div \in BOOLEAN :
         \E r \in {set_reference_thrust(data, options, zero_div)} :
             /\ options' = r.options
             /\ IF r.err # NoError
                THEN Raise("reference", r.err)
                ELSE Pass("reference", "normalize")
    /\ UNCHANGED <<inputs, original_data, data, model_length, engine_variables,
                   use_thrust, use_hybrid_throttle, packing, throttle_scale,
                   idle_points>>

\* _normalize_throttle, then the choice _setup makes of what runs next
NormalizeThrottle ==
    /\ pc = "normalize"
    /\ Called(<<"normalize">>)
    /\ \E r \in {normalize_throttle(data, model_length, use_hybrid_throttle,
                                    throttle_scale)} :
           /\ data' = r.data
           /\ throttle_scale' = r.scale
           /\ IF "pack" \in DOMAIN r THEN SetPacking(r.pack)
              ELSE UNCHANGED packing
           /\ IF r.err # NoError
              THEN Raise("normalize", r.err)
              ELSE Pass("normalize",
                        IF options[GENERATE_FLIGHT_IDLE] THEN "idle" ELSE "done")
    /\ UNCHANGED <<inputs, options, original_data, model_length,
                   engine_variables, use_thrust, use_hybrid_throttle,
                   idle_points>>

\* _generate_flight_idle: an exception inside the loops leaves every field
\* as it was
GenerateFlightIdle ==
    /\ pc = "idle"
    /\ \E r \in {generate_flight_idle(data, packed_data, data_indices,
                     mach_max_count, alt_max_count, data_max_count,
                     engine_variables, use_hybrid_throttle, options,
                     throttle_scale)} :
           IF "pack" \notin DOMAIN r
           THEN /\ Raise("idle", r.err)
                /\ Called(<<"idle">>)
                /\ UNCHANGED <<data, model_length, idle_points, throttle_scale,
                               packing>>
           ELSE /\ data' = r.data
                /\ Called(<<"idle">> \o r.calls)
                /\ model_length' = r.model_length
                /\ idle_points' = r.idle_points
                /\ throttle_scale' = r.scale
                /\ SetPacking(r.pack)
                /\ IF r.err # NoError
                   THEN Raise("idle", r.err)
                   ELSE Pass("idle", "done")
    /\ UNCHANGED <<inputs, options, original_data, engine_variables,
                   use_thrust, use_hybrid_throttle>>

Next ==
    \/ ReadData
    \/ CheckData
    \/ PackData
    \/ SetReferenceThrust
    \/ NormalizeThrottle
    \/ GenerateFlightIdle

Spec == Init /\ [][Next]_vars

SpecGrid == InitGridDecks /\ [][Next]_vars

SpecSources == InitSourceDecks /\ [][Next]_vars

SpecSls == InitSlsDecks /\ [][Next]_vars

SpecScaling == InitScalingDecks /\ [][Next]_vars

\* _normalize_throttle called once more on the constructed deck, nothing
\* having touched the data since construction ended
NormalizeAgain ==
    /\ pc = "done"
    /\ Called(<<"normalize">>)
    /\ \E r \in {normalize_throttle(data, model_length, use_hybrid_throttle,
                                    throttle_scale)} :
           /\ data' = r.data
           /\ throttle_scale' = r.scale
           /\ IF "pack" \in DOMAIN r THEN SetPacking(r.pack)
              ELSE UNCHANGED packing
           /\ IF r.err # NoError
              THEN Raise("normalize", r.err)
              ELSE Pass("normalize", "renormalized")
    /\ UNCHANGED <<inputs, options, original_data, model_length,
                   engine_variables, use_thrust, use_hybrid_throttle,
                   idle_points>>

NextCalls ==
    \/ Next
    \/ NormalizeAgain

SpecThrottle == InitThrottleDecks /\ [][NextCalls]_vars

\* TurboPropDeck.__init__ after super().__init__ has returned (_setup has run)
TurboPropInit ==
    /\ pc = "done"
    /\ power_type # NoPowerType
    /\ IF power_type \in {SHAFT_POWER, SHAFT_POWER_CORRECTED}
       THEN /\ required_variables' =
                   (required_variables \ {THRUST}) \cup {power_type, TAILPIPE_THRUST}
            /\ Pass("turboprop", "built")
       ELSE /\ required_variables' = required_variables \ {THRUST}
            /\ Raise("turboprop", ValueError)
    /\ UNCHANGED <<calls, named_values, raw_data, power_type, options,
                   original_data, data, model_length, engine_variables,
                   use_thrust, use_hybrid_throttle, packing, throttle_scale,
                   idle_points>>

\* the construction of a TurboPropDeck
NextTurboProp ==
    \/ ReadData
    \/ CheckData
    \/ PackData
    \/ NormalizeThrottle
    \/ GenerateFlightIdle
    \/ TurboPropInit

SpecTurboProp == InitTurboPropDecks /\ [][NextTurboProp]_vars

\* _generate_flight_idle called once more on a deck that construction left
\* with its idle points
GenerateIdleAgain ==
    /\ pc = "done"
    /\ hist # <<>> /\ hist[Len(hist)] = "idle"
    /\ \E r \in {generate_flight_idle(data, packed_data, data_indices,
                     mach_max_count, alt_max_count, data_max_count,
                     engine_variables, use_hybrid_throttle, options,
                     throttle_scale)} :
           IF "pack" \notin DOMAIN r
           THEN /\ Raise("idle", r.err)
                /\ Called(<<"idle">>)
                /\ UNCHANGED <<data, model_length, idle_points, throttle_scale,
                               packing>>
           ELSE /\ data' = r.data
                /\ Called(<<"idle">> \o r.calls)
                /\ model_length' = r.model_length
                /\ idle_points' = r.idle_points
                /\ throttle_scale' = r.scale
                /\ SetPacking(r.pack)
                /\ IF r.err # NoError
                   THEN Raise("idle", r.err)
                   ELSE Pass("idle", "idled")
    /\ UNCHANGED <<inputs, options, original_data, engine_variables,
                   use_thrust, use_hybrid_throttle>>

NextIdleAgain ==
    \/ Next
    \/ GenerateIdleAgain

SpecIdleAgain == InitGridDecks /\ [][NextIdleAgain]_vars

SpecHeaders == InitHeaderDecks /\ [][Next]_vars

NextOptions == PreprocessInputs \/ Next

SpecOptions == InitOptionDecks /\ [][NextOptions]_vars

(***************************************************************************)
(* Where construction stands.                                               *)
(***************************************************************************)
\* the stage that ran last, whether it returned or raised
Ran(stage) == hist # <<>> /\ hist[Len(hist)] = stage

\* the stage that ran last returned
Returned(stage) == Ran(stage) /\ err = NoError

(***************************************************************************)
(* C1..C10                                                                  *)
(***************************************************************************)
\* C1: when THRUST, GROSS_THRUST and RAM_DRAG are all present, _check_data
\* raises the data-consistency error if and only if some sample has
\* |GROSS_THRUST - RAM_DRAG - THRUST| not below thrust_tol: it raises when a
\* sample differs by more than thrust_tol and raises nothing of the kind when
\* every sample is within it.
AcceptsConsistentThrust ==
    (Ran("check") /\ {THRUST, GROSS_THRUST, RAM_DRAG} \subseteq DOMAIN raw_data)
    => LET res == [i \in DOMAIN raw_data[THRUST] |->
                      RAbs(RSub(RSub(raw_data[GROSS_THRUST][i],
                                     raw_data[RAM_DRAG][i]),
                                raw_data[THRUST][i]))]
       IN  /\ (\E i \in DOMAIN res : RGt(res[i], thrust_tol))
                 => err = DataConsistencyError
           /\ (\A i \in DOMAIN res : RLt(res[i], thrust_tol))
                 => err # DataConsistencyError

\* C2: _check_data, when it gets as far as the required variables, raises the
\* missing-required-variable error exactly when some required variable is
\* absent from the registry, and the set it names is the set of the absent
\* required variables.
ReportsMissingRequired ==
    (Ran("check") /\ err \notin {DataConsistencyError, ValueError})
    => /\ (err = MissingRequiredVariableError)
            <=> ~(required_variables \subseteq engine_variables)
       /\ (err = MissingRequiredVariableError)
            => missing_variables(engine_variables, required_variables)
                 = required_variables \ engine_variables

\* C3: the first _pack_data of a grid table raises the insufficient-altitude
\* error exactly when some Mach number of the table has fewer than two
\* altitudes, wherever that Mach number stands in the sorted data.
RejectsSingleAltitudeMach ==
    (Ran("pack") /\ Len(hist) = 3)
    => LET rows == DOMAIN raw_data[MACH]
           machs == {raw_data[MACH][i] : i \in rows}
           alts(m) == {raw_data[ALTITUDE][i] :
                          i \in {j \in rows : raw_data[MACH][j] = m}}
       IN  (err = InsufficientAltitudeError)
             <=> \E m \in machs : Cardinality(alts(m)) < 2

\* C4: after every _pack_data that returns, the entries of data_indices sum
\* to model_length, and every sample of the sorted data is held by exactly one
\* cell of the packed grid among the cells its bin counts as filled.
PackingConserves ==
    (Returned("pack") \/ Returned("normalize") \/ Returned("idle"))
    => LET slots == {s \in (1..mach_max_count) \X (1..alt_max_count)
                             \X (1..data_max_count) :
                        s[3] <= data_indices[s[1]][s[2]]}
           Holds(s, i) == \A k \in {MACH, ALTITUDE, THROTTLE, THRUST} :
                              packed_data[k][s[1]][s[2]][s[3]] = data[k][i]
           RECURSIVE Sum(_)
           Sum(row) == IF row = <<>> THEN 0 ELSE Head(row) + Sum(Tail(row))
       IN  /\ Sum([m \in DOMAIN data_indices |-> Sum(data_indices[m])])
                = model_length
           /\ \A i \in 1..model_length :
                 Cardinality({s \in slots : Holds(s, i)}) = 1

\* C5: at every stage boundary from _check_data on, for a table that has every
\* required variable, all sequences of self.data have one length and that
\* length is model_length, IGNORE_NEGATIVE_THRUST included.
DataLengthIsModelLength ==
    (/\ Returned("check") \/ Returned("pack") \/ Returned("normalize")
          \/ Returned("idle")
     /\ default_required_variables \subseteq DOMAIN raw_data)
    => \A k \in DOMAIN data : Len(data[k]) = model_length

\* C6: when REFERENCE_SLS_THRUST is not supplied, _set_reference_thrust raises
\* the no-sea-level-static-point error exactly when no sample has
\* |ALTITUDE| <= alt_tol and |MACH| <= mach_tol, and otherwise sets the
\* reference to the largest THRUST among those samples.
ReferenceFromSeaLevelStatic ==
    Ran("reference")
    => LET sls == {i \in DOMAIN data[THRUST] :
                      /\ RLe(RAbs(data[ALTITUDE][i]), alt_tol)
                      /\ RLe(RAbs(data[MACH][i]), mach_tol)}
       IN  /\ (err = NoSeaLevelStaticPointError) <=> sls = {}
           /\ sls # {} =>
                /\ REFERENCE_SLS_THRUST \in DOMAIN options
                /\ \E i \in sls :
                     /\ options[REFERENCE_SLS_THRUST] = data[THRUST][i]
                     /\ \A j \in sls : RLe(data[THRUST][j], data[THRUST][i])

\* C7: _set_reference_thrust ends as the resolution table says.  Both given,
\* scaling on: the scaling-conflict error iff scaled_thrust / reference is not
\* scale_factor, otherwise both kept (a zero reference has no quotient:
\* the method fails, with that error or with Python's division error); both
\* given, scaling off: scaled_thrust := reference; only the scale factor:
\* scaled_thrust := reference * scale_factor; only the scaled thrust: nothing
\* changed; neither, scaling on: scale_factor := 1, scaled_thrust := reference;
\* neither, scaling off: scaled_thrust := reference.
ScalingStep ==
    pc = "reference" =>
      LET given == DOMAIN options
          has_factor == SCALE_FACTOR \in given
          has_thrust == SCALED_SLS_THRUST \in given
          scaling == options[SCALE_PERFORMANCE]
          ref == options'[REFERENCE_SLS_THRUST]
          Kept(key) == IF key \in given
                       THEN key \in DOMAIN options' /\ options'[key] = options[key]
                       ELSE key \notin DOMAIN options'
          Set(key, val) == key \in DOMAIN options' /\ options'[key] = val
      IN  IF has_factor /\ has_thrust /\ scaling
          THEN /\ Kept(SCALE_FACTOR) /\ Kept(SCALED_SLS_THRUST)
               /\ IF ref = R(0)
                  THEN err' \in {ScalingConflictError, ZeroDivisionError}
                  ELSE /\ err' \in {ScalingConflictError, NoError}
                       /\ (err' = ScalingConflictError)
                            <=> RDiv(options[SCALED_SLS_THRUST], ref)
                                  # options[SCALE_FACTOR]
          ELSE /\ err' = NoError
               /\ IF has_factor /\ has_thrust
                  THEN Kept(SCALE_FACTOR) /\ Set(SCALED_SLS_THRUST, ref)
                  ELSE IF has_factor
                  THEN /\ Kept(SCALE_FACTOR)
                       /\ Set(SCALED_SLS_THRUST, RMul(ref, options[SCALE_FACTOR]))
                  ELSE IF has_thrust
                  THEN Kept(SCALE_FACTOR) /\ Kept(SCALED_SLS_THRUST)
                  ELSE IF scaling
                  THEN Set(SCALE_FACTOR, R(1)) /\ Set(SCALED_SLS_THRUST, ref)
                  ELSE Kept(SCALE_FACTOR) /\ Set(SCALED_SLS_THRUST, ref)

ScalingResolvedAsTabled == [][ScalingStep]_vars

\* a deck given only the scale factor 2 whose scaled thrust has been computed
\* from the reference thrust 4 found in the table
ScaledThrustComputed ==
    /\ Ran("reference") /\ err = NoError
    /\ raw_data[THRUST] = <<R(4)>>
    /\ {SCALE_FACTOR, SCALED_SLS_THRUST, REFERENCE_SLS_THRUST} \subseteq DOMAIN options
    /\ options[SCALE_FACTOR] = R(2)
    /\ options[SCALED_SLS_THRUST] = R(8)
    /\ options[REFERENCE_SLS_THRUST] = R(4)

\* C8: every idle value of a non-direct dependent variable lies within
\* [last * FLIGHT_IDLE_MIN_FRACTION, last * FLIGHT_IDLE_MAX_FRACTION], last
\* being the variable's value at the bin's last (highest-throttle) real sample.
IdleWithinFractionsOfLastSample ==
    Returned("idle") =>
      \A j \in DOMAIN idle_points[MACH] :
        LET rows == {i \in DOMAIN raw_data[MACH] :
                        /\ raw_data[MACH][i] = idle_points[MACH][j]
                        /\ raw_data[ALTITUDE][i] = idle_points[ALTITUDE][j]}
            top == CHOOSE i \in rows : \A k \in rows :
                       RLe(raw_data[THROTTLE][k], raw_data[THROTTLE][i])
            Last(key) == IF key \in DOMAIN raw_data THEN raw_data[key][top]
                         ELSE R(0)
        IN  \A key \in DataKeys \ {MACH, ALTITUDE, THROTTLE, HYBRID_THROTTLE,
                                   THRUST} :
              /\ RLe(RMul(Last(key), options[FLIGHT_IDLE_MIN_FRACTION]),
                     idle_points[key][j])
              /\ RLe(idle_points[key][j],
                     RMul(Last(key), options[FLIGHT_IDLE_MAX_FRACTION]))

\* C9: the idle THRUST of every bin that receives an idle point is the THRUST
\* of the bin's lowest-throttle real sample times FLIGHT_IDLE_THRUST_FRACTION.
IdleThrustFromLowestSample ==
    Returned("idle") =>
      \A j \in DOMAIN idle_points[MACH] :
        LET rows == {i \in DOMAIN raw_data[MACH] :
                        /\ raw_data[MACH][i] = idle_points[MACH][j]
                        /\ raw_data[ALTITUDE][i] = idle_points[ALTITUDE][j]}
            low == CHOOSE i \in rows : \A k \in rows :
                       RLe(raw_data[THROTTLE][i], raw_data[THROTTLE][k])
        IN  idle_points[THRUST][j]
              = RMul(raw_data[THRUST][low], options[FLIGHT_IDLE_THRUST_FRACTION])

\* C10: without hybrid throttle, _generate_flight_idle appends one sample for
\* each bin that holds a real sample and whose lowest-throttle THRUST exceeds
\* thrust_tol and none for any other bin, so that model_length grows by the
\* number of those bins.
OneIdlePointPerLiveBin ==
    (Returned("idle") /\ ~use_hybrid_throttle) =>
      LET rows == DOMAIN raw_data[MACH]
          bins == {<<raw_data[MACH][i], raw_data[ALTITUDE][i]>> : i \in rows}
          Low(b) == CHOOSE i \in rows :
                       /\ <<raw_data[MACH][i], raw_data[ALTITUDE][i]>> = b
                       /\ \A k \in rows :
                            <<raw_data[MACH][k], raw_data[ALTITUDE][k]>> = b
                              => RLe(raw_data[THROTTLE][i], raw_data[THROTTLE][k])
          live == {b \in bins : RGt(raw_data[THRUST][Low(b)], thrust_tol)}
          Points(b) == {j \in DOMAIN idle_points[MACH] :
                           <<idle_points[MACH][j], idle_points[ALTITUDE][j]>> = b}
      IN  /\ \A b \in bins :
                Cardinality(Points(b)) = IF b \in live THEN 1 ELSE 0
          /\ model_length = Len(raw_data[MACH]) + Cardinality(live)

(***************************************************************************)
(* C11..C20                                                                 *)
(***************************************************************************)
\* C11: a call of _normalize_throttle on a deck with at least one sample
\* leaves every THROTTLE value of the working data in [0, 1], the samples
\* that had the smallest raw throttle at 0, those that had the largest at 1,
\* the order of the throttle values as it was, and throttle_min = 0 and
\* throttle_max = 1.
ThrottleNormalizedToUnitRange ==
    [][(pc \in {"normalize", "done"} /\ Len(data[THROTTLE]) >= 1)
       => LET old == data[THROTTLE]
              new == data'[THROTTLE]
          IN  /\ err' = NoError
              /\ Len(new) = Len(old)
              /\ \A i \in DOMAIN new :
                    /\ RLe(R(0), new[i]) /\ RLe(new[i], R(1))
                    /\ old[i] = PyMin(old) => new[i] = R(0)
                    /\ old[i] = PyMax(old) => new[i] = R(1)
              /\ \A i, j \in DOMAIN new :
                    RLt(old[i], old[j]) => RLt(new[i], new[j])
              /\ throttle_scale'.throttle_min = R(0)
              /\ throttle_scale'.throttle_max = R(1)]_vars

\* C12: the hybrid-throttle normalization maps every negative input into
\* [-1, 0) with the most negative at -1, every positive input into (0, 1]
\* with the largest at 1, and every zero to 0; each group is scaled by its own
\* extreme only (negative x becomes x / |most negative|, positive x becomes
\* x / largest), so no value changes sign.
HybridGroupsNormalizedApart ==
    [][(pc \in {"normalize", "done"} /\ use_hybrid_throttle /\ err' = NoError)
       => LET old  == data[HYBRID_THROTTLE]
              new  == data'[HYBRID_THROTTLE]
              negs == {i \in DOMAIN old : RLt(old[i], R(0))}
              poss == {i \in DOMAIN old : RGt(old[i], R(0))}
          IN  /\ Len(new) = Len(old)
              /\ \A i \in negs :
                    /\ RLe(R(-1), new[i]) /\ RLt(new[i], R(0))
                    /\ (\A j \in negs : RLe(old[i], old[j])) => new[i] = R(-1)
                    /\ \A j \in negs :
                          (\A k \in negs : RLe(old[j], old[k]))
                              => RMul(new[i], RNeg(old[j])) = old[i]
              /\ \A i \in poss :
                    /\ RLt(R(0), new[i]) /\ RLe(new[i], R(1))
                    /\ (\A j \in poss : RLe(old[j], old[i])) => new[i] = R(1)
                    /\ \A j \in poss :
                          (\A k \in poss : RLe(old[k], old[j]))
                              => RMul(new[i], old[j]) = old[i]
              /\ \A i \in DOMAIN old \ (negs \cup poss) : new[i] = R(0)]_vars

\* a deck given hybrid throttles -2, -1 and 0.5 that construction normalized
\* to -1, -0.5 and 1
HybridThrottleNormalized ==
    /\ Ran("normalize") /\ err = NoError /\ use_hybrid_throttle
    /\ HYBRID_THROTTLE \in DOMAIN raw_data
    /\ raw_data[HYBRID_THROTTLE] = <<R(-2), R(-1), Q(1, 2)>>
    /\ Range(data[HYBRID_THROTTLE]) = {R(-1), Q(-1, 2), R(1)}

\* C13: a second call of _normalize_throttle, with no change of the data
\* since the first, leaves THROTTLE and HYBRID_THROTTLE of the working data,
\* the packed grid, throttle_min / throttle_max and hybrid_throttle_min /
\* hybrid_throttle_max exactly as the first call left them.
RenormalizingChangesNothing ==
    [][pc = "done"
       => /\ err' = NoError
          /\ data'[THROTTLE] = data[THROTTLE]
          /\ data'[HYBRID_THROTTLE] = data[HYBRID_THROTTLE]
          /\ packing' = packing
          /\ throttle_scale' = throttle_scale]_vars

\* C14: the methods construction calls are, in this order, read, check, pack,
\* reference-thrust resolution (only for a deck that provides THRUST),
\* normalize and, only with GENERATE_FLIGHT_IDLE, idle synthesis followed by
\* a re-pack and a re-normalize; a finished construction has called them all,
\* and no step is taken after a stage has raised.
StagesRunInOrder ==
    [][/\ err = NoError
       /\ LET whole ==
                  <<"read", "check", "pack">>
                  \o (IF THRUST \in engine_variables' THEN <<"reference">>
                      ELSE <<>>)
                  \o <<"normalize">>
                  \o (IF options'[GENERATE_FLIGHT_IDLE]
                      THEN <<"idle", "pack", "normalize">> ELSE <<>>)
          IN  /\ Len(calls') <= Len(whole)
              /\ calls' = SubSeq(whole, 1, Len(calls'))
              /\ pc' = "done" => calls' = whole
              /\ err' # NoError <=> pc' = "failed"]_vars

\* a construction that went through every stage, idle synthesis included
AllStagesRan ==
    /\ pc = "done"
    /\ calls = <<"read", "check", "pack", "reference", "normalize",
                 "idle", "pack", "normalize">>

\* C15: with IGNORE_NEGATIVE_THRUST, when _check_data returns no sample of
\* the working data has THRUST < 0, the samples given with THRUST >= 0 are
\* all there, and every sequence has lost the same positions: each column
\* of the table is the given column at the positions of the kept samples.
NegativeThrustDroppedAligned ==
    (Returned("check") /\ options[IGNORE_NEGATIVE_THRUST]
        /\ THRUST \in DOMAIN raw_data)
    => LET given == raw_data[THRUST]
           kept  == SelectSeq([i \in DOMAIN given |-> i],
                              LAMBDA i : RGe(given[i], R(0)))
       IN  /\ \A k \in DOMAIN data : Len(data[k]) = Len(kept)
           /\ \A i \in DOMAIN data[THRUST] : RGe(data[THRUST][i], R(0))
           /\ \A k \in (DOMAIN raw_data \cap DOMAIN data) \ {THRUST} :
                 data[k] = [i \in DOMAIN kept |-> raw_data[k][kept[i]]]

\* a two-sample deck that lost its negative-thrust second sample
NegativeSampleDropped ==
    /\ Returned("check") /\ options[IGNORE_NEGATIVE_THRUST]
    /\ DOMAIN raw_data = {MACH, ALTITUDE, THROTTLE, THRUST}
    /\ raw_data[THRUST] = <<R(5), R(-3)>>
    /\ data[THROTTLE] = <<Q(1, 4)>>
    /\ data[THRUST] = <<R(5)>>

\* C16: when _check_data returns (no sample dropped), working THRUST[i] is
\* base[i] + tailpipe[i] for every sample i, with base the given THRUST if
\* there is one, else GROSS_THRUST - RAM_DRAG if both are given, else 0, and
\* tailpipe the given TAILPIPE_THRUST, else 0; and THRUST is in the variable
\* registry whenever one of these sources is given.
ThrustFromItsSources ==
    (Returned("check") /\ ~options[IGNORE_NEGATIVE_THRUST]
        /\ ALTITUDE \in DOMAIN raw_data)
    => LET has(k) == k \in DOMAIN raw_data
           n == Len(raw_data[ALTITUDE])
           base(i) ==
               IF has(THRUST) THEN raw_data[THRUST][i]
               ELSE IF has(GROSS_THRUST) /\ has(RAM_DRAG)
               THEN RSub(raw_data[GROSS_THRUST][i], raw_data[RAM_DRAG][i])
               ELSE R(0)
           tailpipe(i) ==
               IF has(TAILPIPE_THRUST) THEN raw_data[TAILPIPE_THRUST][i]
               ELSE R(0)
       IN  /\ data[THRUST] = [i \in 1..n |-> RAdd(base(i), tailpipe(i))]
           /\ (has(THRUST) \/ (has(GROSS_THRUST) /\ has(RAM_DRAG))
                  \/ has(TAILPIPE_THRUST))
              => THRUST \in engine_variables


\* the spelling of a header that the claim compares with the aliases: upper
\* case letters lowered, blanks replaced by underscores
UpperCase == "ABCDEFGHIJKLMNOPQRSTUVWXYZ"

LowerCase == "abcdefghijklmnopqrstuvwxyz"

Lowered(c) ==
    IF c = " " THEN "_"
    ELSE IF \E i \in 1..Len(UpperCase) : SubSeq(UpperCase, i, i) = c
    THEN LET i == CHOOSE i \in 1..Len(UpperCase) : SubSeq(UpperCase, i, i) = c
         IN  SubSeq(LowerCase, i, i)
    ELSE c

RECURSIVE Spelling(_)
Spelling(header) ==
    IF header = "" THEN ""
    ELSE Lowered(SubSeq(header, 1, 1)) \o Spelling(SubSeq(header, 2, Len(header)))

\* the aliases registered for a key, as a set
Registered(key) ==
    IF key = ELECTRIC_POWER THEN {aliases(key)}
    ELSE {aliases(key)[i] : i \in 1..Len(aliases(key))}

\* C17: when _read_data runs on an in-memory table, a key K is in the
\* variable registry if and only if some header of the table, lowercased and
\* with blanks replaced by underscores, equals an alias registered for K, and
\* the table kept under K is then the column under that header.
HeaderRecognizedByAlias ==
    [][(pc = "read" /\ named_values # <<>>)
       => \A K \in Range(alias_keys) :
             LET headed == {i \in DOMAIN named_values :
                               Spelling(named_values[i].header) \in Registered(K)}
             IN  /\ K \in engine_variables' <=> headed # {}
                 /\ \A i \in headed :
                       /\ K \in DOMAIN raw_data'
                       /\ raw_data'[K] = named_values[i].values]_vars

\* the options without the verbosity setting itself
Numeric(opts) == [k \in DOMAIN opts \ {VERBOSITY} |-> opts[k]]

\* C18: _preprocess_inputs ends the same way at every verbosity: the options
\* it leaves on the options given (the defaults filled in, the idle fractions
\* flipped when min > max) and its outcome are those it leaves on the same
\* options at any other verbosity; the stages after it read no verbosity, so
\* the deck is the same too.
SameOptionsAtEveryVerbosity ==
    [][pc = "preprocess"
       => \A v \in Verbosities :
             LET other == preprocess_inputs(set_val(options, VERBOSITY, v))
             IN  /\ err' = other.err
                 /\ Numeric(options') = Numeric(other.options)]_vars

\* the construction of the scenario deck, without idle synthesis, has ended
ScenarioEnded ==
    /\ raw_data = ScenarioTable
    /\ ~options[GENERATE_FLIGHT_IDLE]
    /\ pc \in {"done", "failed"}

\* C19 as stated: for the table MACH=[0,0,0.8,0.8], ALTITUDE=[0,0,35000,35000],
\* THROTTLE=[1.0,0.6,1.0,0.6], THRUST=[25000,15000,8000,5000] without idle
\* synthesis, construction succeeds with mach_max_count = 2, alt_max_count = 1,
\* data_max_count = 2, REFERENCE_SLS_THRUST = 25000 and every normalized
\* THROTTLE in {0, 1}.
ScenarioConstructs ==
    ScenarioEnded
    => /\ pc = "done"
       /\ mach_max_count = 2
       /\ alt_max_count = 1
       /\ data_max_count = 2
       /\ REFERENCE_SLS_THRUST \in DOMAIN options
       /\ options[REFERENCE_SLS_THRUST] = R(25000)
       /\ \A i \in DOMAIN data[THROTTLE] : data[THROTTLE][i] \in {R(0), R(1)}

\* C19: for that table construction fails in _pack_data: _count_data raises
\* the one-altitude error when it reaches the Mach 0.8 samples, Mach 0 having
\* the single altitude 0 ft; no count is stored, no reference thrust is set
\* and the throttles stay as given.
ScenarioFailsForOneAltitude ==
    ScenarioEnded
    => /\ pc = "failed"
       /\ hist = <<"read", "check", "pack">>
       /\ err = InsufficientAltitudeError
       /\ mach_max_count = 0 /\ alt_max_count = 0 /\ data_max_count = 0
       /\ REFERENCE_SLS_THRUST \notin DOMAIN options
       /\ data[THROTTLE] = <<Q(3, 5), R(1), Q(3, 5), R(1)>>

\* the scenario deck after _pack_data raised
ScenarioFailed ==
    /\ ScenarioEnded
    /\ Ran("pack")
    /\ err = InsufficientAltitudeError
    /\ data[MACH] = <<R(0), R(0), Q(4, 5), Q(4, 5)>>

\* the samples of the working data that are the idle point j: those of its
\* bin that carry its value of every dependent variable
IdleSamples(j) ==
    {i \in DOMAIN data[MACH] :
        \A k \in DOMAIN data \ {THROTTLE, HYBRID_THROTTLE} :
            data[k][i] = idle_points[k][j]}

\* C20: with HYBRID_THROTTLE in use, when _generate_flight_idle has returned,
\* every bin that received an idle point holds exactly three idle samples,
\* equal in every dependent variable, whose HYBRID_THROTTLE values are -h, 0
\* and h for one h > 0.
IdleSweepSymmetric ==
    (Returned("idle") /\ use_hybrid_throttle)
    => \A j \in DOMAIN idle_points[MACH] :
          LET hybrid == {data[HYBRID_THROTTLE][i] : i \in IdleSamples(j)}
          IN  /\ Cardinality(IdleSamples(j)) = 3
              /\ \E h \in hybrid : RGt(h, R(0)) /\ hybrid = {RNeg(h), R(0), h}

(***************************************************************************)
(* C21..C30                                                                 *)
(***************************************************************************)
\* the real samples of the bin whose anchors are mach and alt
RealSamples(mach, alt) ==
    {i \in DOMAIN data[MACH] : data[MACH][i] = mach /\ data[ALTITUDE][i] = alt}

\* C21: when _generate_flight_idle has computed its idle points (no hybrid
\* throttle), in every bin of at least two real samples that received one,
\* the idle value of each non-direct variable is y0 + (y1 - y0) * term,
\* clamped, where y0 and y1 are the variable's two lowest-throttle samples
\* and term is (idle - d0) / (d1 - d0) for the direct variable of highest
\* precedence (SHAFT_POWER, else SHAFT_POWER_CORRECTED, else THRUST), idle
\* being its idle value and d0, d1 its two lowest-throttle samples.
IdleExtrapolatedWithOneTerm ==
    [][(pc = "idle" /\ ~use_hybrid_throttle /\ idle_points'[MACH] # <<>>)
       => LET cells == IdleCells(packed_data, data_indices, mach_max_count,
                                 alt_max_count)
              first == IF SHAFT_POWER \in engine_variables THEN SHAFT_POWER
                       ELSE IF SHAFT_POWER_CORRECTED \in engine_variables
                       THEN SHAFT_POWER_CORRECTED
                       ELSE THRUST
              bin(key, j) == packed_data[key][cells[j][1]][cells[j][2]]
              term(j) == RDiv(RSub(idle_points'[first][j], bin(first, j)[1]),
                              RSub(bin(first, j)[2], bin(first, j)[1]))
              value(key, j) ==
                  RAdd(bin(key, j)[1],
                       RMul(RSub(bin(key, j)[2], bin(key, j)[1]), term(j)))
              bound(key, j, fraction) ==
                  RMul(bin(key, j)[ClampSlot(data_max_count, 0)],
                       options[fraction])
          IN  \A j \in DOMAIN cells :
                Cardinality(RealSamples(bin(MACH, j)[1], bin(ALTITUDE, j)[1])) >= 2
                => /\ IsFinite(term(j))
                   /\ \A key \in NonDirectVars(engine_variables) :
                         idle_points'[key][j] =
                             Clamp(value(key, j),
                                   bound(key, j, FLIGHT_IDLE_MIN_FRACTION),
                                   bound(key, j, FLIGHT_IDLE_MAX_FRACTION))]_vars

\* C22: a second call of _generate_flight_idle, on a deck whose idle points
\* construction has synthesized, appends no sample: model_length and the
\* working data are after it what they were before it.
SecondIdleCallStable ==
    [][(pc = "done" /\ Ran("idle"))
       => (model_length' = model_length /\ data' = data)]_vars

BinState(i) == count_data(data, i)

\* the samples of the sorted data that _count_data puts in bin (M, A)
SamplesOf(M, A) ==
    {i \in 1..model_length :
        BinState(i).mach_count = M /\ BinState(i).alt_count = A}

\* C24: when _pack_data has returned, for every bin (M, A) of the packed
\* grid with a non-zero count, the count is the number of samples of the bin,
\* and every valid slot D holds, for all variables, the values of one sample
\* of that bin, so that its MACH and ALTITUDE are within mach_tol and alt_tol
\* of the anchors of the bin.
PackedBinsHoldTheirSamples ==
    Returned("pack") =>
        \A M \in 1..mach_max_count, A \in 1..alt_max_count :
            data_indices[M][A] # 0 =>
                /\ data_indices[M][A] = Cardinality(SamplesOf(M, A))
                /\ \A D \in 1..data_indices[M][A] :
                      /\ D <= data_max_count
                      /\ \E i \in SamplesOf(M, A) :
                            /\ \A key \in DOMAIN packed_data :
                                  packed_data[key][M][A][D] = data[key][i]
                            /\ IsClose(packed_data[MACH][M][A][D],
                                       BinState(i).curr_mach, mach_tol)
                            /\ IsClose(packed_data[ALTITUDE][M][A][D],
                                       BinState(i).curr_alt, alt_tol)

\* C25: when _count_data has returned, mach_max_count is the number of Mach
\* bins, alt_max_count the largest number of altitude bins of a Mach bin and
\* data_max_count the largest number of samples of a bin, the last Mach bin
\* and the last bin included, so that the packed grid has a slot for every
\* sample.
CountsAreMaximaOverAllBins ==
    (Ran("pack") /\ err \in {NoError, IndexError}
                 /\ model_length = Len(data[MACH]) /\ model_length > 0) =>
        /\ mach_max_count =
               Cardinality({BinState(i).mach_count : i \in 1..model_length})
        /\ \A i \in 1..model_length :
              /\ BinState(i).alt_count <= alt_max_count
              /\ Cardinality(SamplesOf(BinState(i).mach_count,
                                       BinState(i).alt_count)) <= data_max_count
        /\ \E i \in 1..model_length : BinState(i).alt_count = alt_max_count
        /\ \E i \in 1..model_length :
              Cardinality(SamplesOf(BinState(i).mach_count,
                                    BinState(i).alt_count)) = data_max_count

\* the sort keys, the primary key first
SortKeys == <<MACH, ALTITUDE, THROTTLE, HYBRID_THROTTLE>>

\* sample i is not after sample j in the lexicographic order of the sort keys
NotAfter(dat, i, j) ==
    \A n \in DOMAIN SortKeys :
        (\A m \in 1..(n - 1) : dat[SortKeys[m]][i] = dat[SortKeys[m]][j])
            => RLe(dat[SortKeys[n]][i], dat[SortKeys[n]][j])

\* sample i of the data, all variables together
RowAt(dat, i) == [key \in DOMAIN dat |-> dat[key][i]]

\* how often the row occurs in the data
Occurrences(dat, row) ==
    Cardinality({i \in 1..Len(dat[MACH]) : RowAt(dat, i) = row})

\* C26: the step that sorts the data (the first statement of _pack_data)
\* leaves the samples in non-decreasing lexicographic order of (MACH,
\* ALTITUDE, THROTTLE, HYBRID_THROTTLE), and the sorted data is a permutation
\* of the rows it had: the same variables, the same number of samples, and
\* every row (the values of all variables of one sample) as often as before.
SortedRowsArePermuted ==
    [][(pc = "pack" /\ SameLengths(data)) =>
          /\ \A i \in 1..(Len(data'[MACH]) - 1) : NotAfter(data', i, i + 1)
          /\ DOMAIN data' = DOMAIN data
          /\ \A key \in DOMAIN data : Len(data'[key]) = Len(data[key])
          /\ \A i \in 1..Len(data[MACH]) :
                Occurrences(data', RowAt(data, i))
                    = Occurrences(data, RowAt(data, i))]_vars

\* sorted data whose rows were given in another order, with an altitude
\* below the one before it where the next Mach number starts
RowsMovedMachFirst ==
    /\ Ran("pack")
    /\ data[MACH] # original_data[MACH]
    /\ data[THROTTLE] # original_data[THROTTLE]
    /\ \E i \in 1..(Len(data[MACH]) - 1) :
          /\ RLt(data[MACH][i], data[MACH][i + 1])
          /\ RGt(data[ALTITUDE][i], data[ALTITUDE][i + 1])

\* C27: when _count_data has returned, two altitude bins of one Mach bin
\* never have anchors within alt_tol of each other, also when the Mach bin
\* holds samples whose Mach numbers are within mach_tol but not equal.
AltitudeBinsDistinct ==
    (Ran("pack") /\ err \in {NoError, IndexError}
                 /\ model_length = Len(data[MACH])) =>
        \A i, j \in 1..model_length :
            (/\ BinState(i).mach_count = BinState(j).mach_count
             /\ BinState(i).alt_count # BinState(j).alt_count)
                => ~IsClose(BinState(i).curr_alt, BinState(j).curr_alt, alt_tol)

\* C28: when _generate_flight_idle has returned, every THROTTLE value is in
\* [0, 1], and every idle point has a sample with THROTTLE exactly 0 that is
\* in slot 0 of its bin of the packed grid, all other samples of that bin
\* having THROTTLE > 0.
IdleAtZeroThrottleInSlotZero ==
    (Returned("idle") /\ pc = "done") =>
        /\ \A i \in 1..model_length :
              RLe(R(0), data[THROTTLE][i]) /\ RLe(data[THROTTLE][i], R(1))
        /\ \A j \in DOMAIN idle_points[MACH] :
              \E i \in IdleSamples(j) :
                  /\ data[THROTTLE][i] = R(0)
                  /\ BinState(i).mach_count <= mach_max_count
                  /\ BinState(i).alt_count <= alt_max_count
                  /\ \A key \in DOMAIN packed_data :
                        packed_data[key][BinState(i).mach_count]
                                   [BinState(i).alt_count][1] = data[key][i]
                  /\ \A r \in SamplesOf(BinState(i).mach_count,
                                        BinState(i).alt_count) :
                        \/ \E p \in DOMAIN idle_points[MACH] : r \in IdleSamples(p)
                        \/ RGt(data[THROTTLE][r], R(0))

\* the required set of a TurboPropDeck of the given power type
TurboPropRequired(power) ==
    (default_required_variables \ {THRUST}) \cup {power, TAILPIPE_THRUST}

\* C29: in the construction of a TurboPropDeck, _check_data runs with the
\* turboprop required set (THRUST removed, the power type and TAILPIPE_THRUST
\* added), and with a power_type that is neither SHAFT_POWER nor
\* SHAFT_POWER_CORRECTED no data is ever read.
TurboPropCheckedAgainstItsSet ==
    power_type # NoPowerType =>
        /\ pc = "check" => required_variables = TurboPropRequired(power_type)
        /\ power_type \notin {SHAFT_POWER, SHAFT_POWER_CORRECTED}
               => \A i \in DOMAIN hist : hist[i] # "read"

\* C30: _read_data, the one stage that is handed the caller's in-memory
\* table, leaves it as it was: the same columns under the same names with the
\* same values.
CallerTableUnchanged ==
    [][pc = "read" => named_values' = named_values]_vars
=============================================================================
